---- MODULE Spec2Model ----
(***************************************************************************)
(* Model of the dynamic computation graph engine of poly-np-sim:           *)
(*   main/dynamicComputationGraph.py  (vertices, edges, graph queries)     *)
(*   main/feasibleGraph.py            (ComputeFeasibleGraph)               *)
(*   main/verificationWalk.py         (VerifyExistenceOfWalk)              *)
(*   main/simulateAllCertificatePoly.py (SimulateVerifierForAllCertificates)*)
(*                                                                         *)
(* A vertex is its key <<index, tier, state, symbol, last_state,           *)
(* last_symbol>> (vertex.__eq__/__hash__ compare the key only); a floor     *)
(* vertex (tier 0) has no predecessor and carries NoPred in the last two   *)
(* fields.  A graph is a record [V, E]: V is the set of vertices           *)
(* registered by addVertex, E the set of stored edges <<u, v>>.  Python    *)
(* sets of vertices and edges are iterated in hash order, and the hash of  *)
(* a key holding strings changes from process to process, so every place   *)
(* where the code takes "the first" element of a set or walks a list that  *)
(* was filled in set order is a nondeterministic choice here.              *)
(***************************************************************************)
EXTENDS Integers, Sequences, FiniteSets, TLC

\* ------------------------------------------------------------------ bounds
MaxIndex == 2
MaxTier == 1
MaxEdges == 4
MaxTargets == 2

\* ------------------------------------------------------------ vocabulary
NoPred == "none"
Blank == "eps"
Halting == {"Accept", "Reject"}
States == {"q0", "q1", "q2", "q3", "Accept", "Reject"}
Separator == "#"
Gamma == {"a", "b", Separator, Blank}

\* A transition table completed the way the verifier machines complete
\* theirs: a pair without an entry rejects, moving right.
TM(tab) ==
  [x \in States \X Gamma |->
     IF x \in DOMAIN tab THEN tab[x] ELSE <<"Reject", x[2], 1>>]

Machine1 ==
  TM(<<"q0", "a">> :> <<"q0", "a", 1>> @@
     <<"q0", "b">> :> <<"q1", "a", -1>> @@
     <<"q0", Blank>> :> <<"Accept", Blank, 1>> @@
     <<"q1", "a">> :> <<"q0", "b", 1>>)

Machine2 ==
  TM(<<"q0", "a">> :> <<"q2", "a", 1>> @@
     <<"q0", "b">> :> <<"q1", "b", 1>> @@
     <<"q0", Blank>> :> <<"q2", "b", 1>> @@
     <<"q1", "a">> :> <<"q2", "b", 1>> @@
     <<"q1", "b">> :> <<"q3", Blank, -1>> @@
     <<"q1", Blank>> :> <<"q2", "b", 1>> @@
     <<"q2", "a">> :> <<"q1", "b", -1>> @@
     <<"q2", "b">> :> <<"q1", "a", -1>> @@
     <<"q2", Blank>> :> <<"q3", "b", -1>> @@
     <<"q3", "a">> :> <<"q2", "a", 1>> @@
     <<"q3", "b">> :> <<"q1", "a", 1>> @@
     <<"q3", Blank>> :> <<"Reject", Blank, -1>>)

\* The verifier machine of the simulation runs: on a tape x#w it walks to
\* the first certificate cell, carries its symbol back over the separator
\* and accepts when it equals x.
Machine3 ==
  TM(<<"q0", "a">> :> <<"q0", "a", 1>> @@
     <<"q0", "b">> :> <<"q0", "b", 1>> @@
     <<"q0", Separator>> :> <<"q1", Separator, 1>> @@
     <<"q1", "a">> :> <<"q2", "a", -1>> @@
     <<"q1", "b">> :> <<"q3", "b", -1>> @@
     <<"q2", Separator>> :> <<"q2", Separator, -1>> @@
     <<"q2", "a">> :> <<"Accept", "a", -1>> @@
     <<"q3", Separator>> :> <<"q3", Separator, -1>> @@
     <<"q3", "b">> :> <<"Accept", "b", -1>>)

\* An oracle that leaves the declared state set: from q0 on "a" it goes to
\* the state qx, which is not among the states the run is given, and from
\* qx it accepts on the blank.
Undeclared == "qx"
Machine4 ==
  [x \in (States \cup {Undeclared}) \X Gamma |->
     IF x = <<"q0", "a">> THEN <<Undeclared, "a", 1>>
     ELSE IF x = <<Undeclared, Blank>> THEN <<"Accept", Blank, 1>>
     ELSE <<"Reject", x[2], 1>>]

Machines == <<Machine1, Machine2, Machine3, Machine4>>

VARIABLES
  tm,        \* index of the installed machine (TransitionCase.delta)
  pc,        \* position of the control process
  G0,        \* the graph of record handed to the operation under test
  G,         \* parameter G of the running ComputeFeasibleGraph
  V0,        \* start vertices
  Ef,        \* target edges handed to ComputeFeasibleGraph
  C,         \* cover edges of the running ComputeFeasibleGraph
  H,         \* candidate graph of the running ComputeFeasibleGraph
  T,         \* its worklist (a deque used as a stack: pop takes the end)
  EfRem,     \* Ef_ : the targets not removed so far
  fgRet,     \* where ComputeFeasibleGraph returns to
  fgResult,  \* the graph it returned
  fgLast,    \* what the last worklist iteration did
  ef,        \* target edge of the running VerifyExistenceOfWalk
  Gw,        \* G of VerifyExistenceOfWalk
  Gc,        \* G of FindFeasibleOrDisjointEdge
  shared,    \* Gc still uses the vertex registry of Gw (getCopyedGraph)
  R,         \* edges of R, the walks found to be embedded
  W,         \* the walk taken so far
  we,        \* e of TakeArbitraryWalk: the edge it appends next
  S,         \* its surface: visited index -> transition case
  seen,      \* the (e, S) pairs the running walk has been in
  prune,     \* the running PruneWalk: e_, preserveObsolete, Eo, T, Ev
  vwRet,     \* where VerifyExistenceOfWalk returns to
  vwResult,  \* what it returned
  hist,      \* sizes at the previous loop heads, counters
  simL,      \* L: the tape string of SimulateVerifierForAllCertificates
  simM,      \* m: the number of certificate cells after L
  GV,        \* vertices above the floor created in the registry of G
  simQ,      \* Q: the candidate edges still to verify
  simEv,     \* Ev: pairs (ceiling edge or None, edge) found while extending
  xe,        \* e of ExtendEdgeDirectlyWithWalk: the edge walked next
  xS,        \* its surface S: slice index -> last edge over that slice
  xR,        \* its tape R: cell index -> symbol first read there
  xT,        \* its stack T of restart points (e, S, R)
  walkLength,\* edges walked since the last restart
  accepted,  \* result of IsAcceptedOnFootmarks
  yesWitness,\* G.yesWitness
  answer,    \* what SimulateVerifierForAllCertificates returned
  simCand,   \* the candidate of ExtendByVerifiableEdges and H before it was added
  fgModule,  \* whose feasibleGraph.py is in the package: main's or original's
  mainAnswer,\* the answer the same input had with main's feasibleGraph.py
  procRun,   \* the runs this process has finished and what the first one was
  dcg,       \* one or two DynamicComputationGraph objects in their stored form
  dcgV,      \* the vertex registries (V) those graphs refer to
  dcgLast,   \* the last two operations on them and what was there before
  caseCall,  \* the last call of TransitionCase.vertex and what it gave
  cells,     \* a CellArray that is only read
  cellRead   \* the last read of it and the array before that read

fgVars == <<G, Ef, C, H, T, EfRem, fgRet, fgResult, fgLast>>
vwVars == <<ef, Gw, Gc, shared, R, W, we, S, seen, prune, vwRet, vwResult, hist>>
simVars == <<simL, simM, GV, simQ, simEv, xe, xS, xR, xT, walkLength,
             accepted, yesWitness, answer, simCand, fgModule, mainAnswer, procRun, procRun>>
dcgVars == <<dcg, dcgV, dcgLast, caseCall, cells, cellRead>>
vars == <<tm, pc, G0, V0, fgVars, vwVars, simVars, dcgVars>>

\* ---------------------------------------------------------------- vertex
index(v) == v[1]
tier(v) == v[2]
state(v) == v[3]
symbol(v) == v[4]
last_state(v) == v[5]
last_symbol(v) == v[6]

delta(q, s) == Machines[tm][<<q, s>>]
next_state(v) == delta(state(v), symbol(v))[1]
output(v) == delta(state(v), symbol(v))[2]
next_index(v) == index(v) + delta(state(v), symbol(v))[3]

FloorVertex(i, q, s) == <<i, 0, q, s, NoPred, NoPred>>

\* TransitionCase.__eq__: index, tier, state and symbol, nothing else.
transitionCase(v) == <<index(v), tier(v), state(v), symbol(v)>>

\* module-level index(e) and dir(e)
indexE(e) == IF index(e[1]) < index(e[2]) THEN index(e[1]) ELSE index(e[2])
dirE(e) == index(e[2]) - index(e[1])

\* ----------------------------------------------------------------- graph
EmptyGraph == [V |-> {}, E |-> {}]
size(g) == Cardinality(g.E)
hasEdge(g, e) == e \in g.E
incomingEdgeOf_swapped(g, v) == {<<e[2], e[1]>> : e \in {x \in g.E : x[2] = v}}
incomingEdgeOf(g, v) == {e \in g.E : e[2] = v}
outgoingEdgeOf(g, v) == {e \in g.E : e[1] = v}
getNextEdges(g, e) == outgoingEdgeOf(g, e[2])
getPrevEdges(g, e) == incomingEdgeOf(g, e[1])

addVertex(g, v) == [g EXCEPT !.V = @ \cup {v}]

addEdge(g, e) ==
  IF hasEdge(g, e) THEN g
  ELSE [V |-> g.V \cup {e[1], e[2]}, E |-> g.E \cup {e}]

removeEdge_rightOnly(g, e) ==
  IF ~hasEdge(g, e) \/ dirE(e) < 0 THEN g ELSE [g EXCEPT !.E = @ \ {e}]

removeEdge(g, e) ==
  IF ~hasEdge(g, e) THEN g ELSE [g EXCEPT !.E = @ \ {e}]

\* Both an incoming and an outgoing edge on the same side of v.
isFoldingNode(g, v) ==
  \/ /\ \E e \in incomingEdgeOf(g, v) : index(e[1]) = index(v) - 1
     /\ \E e \in outgoingEdgeOf(g, v) : index(e[2]) = index(v) - 1
  \/ /\ \E e \in incomingEdgeOf(g, v) : index(e[1]) = index(v) + 1
     /\ \E e \in outgoingEdgeOf(g, v) : index(e[2]) = index(v) + 1

isMergingEdge(g, e) ==
  Cardinality({f \in incomingEdgeOf(g, e[2]) : dirE(f) = dirE(e)}) > 1

isSplittingEdge(g, e) ==
  Cardinality({f \in outgoingEdgeOf(g, e[1]) : dirE(f) = dirE(e)}) > 1

\* V[i][t][q][s] of a graph: a floor case holds its floor vertex from the
\* moment it is first read, a higher case only the vertices added to it.
CaseVertices(g, i, t, q, s) ==
  IF t = 0 THEN {FloorVertex(i, q, s)}
  ELSE {w \in g.V : transitionCase(w) = <<i, t, q, s>>}

IPrecedent(g, v) ==
  IF tier(v) = 0 THEN {}
  ELSE CaseVertices(g, index(v), tier(v) - 1, last_state(v), last_symbol(v))

ISuccedent(g, v) ==
  {w \in g.V : /\ index(w) = index(v)
               /\ tier(w) = tier(v) + 1
               /\ symbol(w) = output(v)
               /\ last_state(w) = state(v)
               /\ last_symbol(w) = symbol(v)}

CountIPrecedents_wrongSlice(g, e) ==
  Cardinality({f \in g.E : f[1] \in IPrecedent(g, e[2]) /\ indexE(f) # indexE(e)})

CountIPrecedents(g, e) ==
  Cardinality({f \in g.E : f[1] \in IPrecedent(g, e[2]) /\ indexE(f) = indexE(e)})

CountISuccedents(g, e) ==
  Cardinality({f \in g.E : f[2] \in ISuccedent(g, e[1]) /\ indexE(f) = indexE(e)})

GetIPrecedents(g, e) ==
  IF tier(e[2]) = 0 THEN {}
  ELSE {f \in g.E :
          /\ f[1] \in IPrecedent(g, e[2])
          /\ \/ f[2] \in IPrecedent(g, e[1])
             \/ f[2] = e[1]
             \/ tier(f[2]) < tier(e[1]) - 1}

GetISuccedents(g, e) ==
  {f \in g.E :
     /\ f[2] \in ISuccedent(g, e[1])
     /\ \/ f[1] \in ISuccedent(g, e[2])
        \/ f[1] = e[2]
        \/ tier(f[1]) > tier(e[2]) + 1}

\* --------------------------------------------------------------- helpers
RECURSIVE SumSizes(_)
SumSizes(blocks) ==
  IF blocks = <<>> THEN 0
  ELSE Cardinality(Head(blocks)) + SumSizes(Tail(blocks))

\* A deque used as a stack.  Edges pushed together (one extend, or the
\* appends of one loop over a set) form a block: their relative order is
\* hash order, so pop may take any edge of the topmost block.
Push(stack, block) == IF block = {} THEN stack ELSE Append(stack, block)
Top(stack) == stack[Len(stack)]
PopFrom(stack, e) ==
  IF Top(stack) = {e} THEN SubSeq(stack, 1, Len(stack) - 1)
  ELSE [stack EXCEPT ![Len(stack)] = @ \ {e}]

\* --------------------------------------------------------- feasibleGraph
RECURSIVE CeilingVisited(_, _, _)
CeilingVisited(g, v0, Vv) ==
  LET new == UNION {IPrecedent(g, u) : u \in {x \in Vv : isFoldingNode(g, x) \/ x = v0}} \ Vv
  IN IF new = {} THEN Vv ELSE CeilingVisited(g, v0, Vv \cup new)

GetWeakCeilingAdjacentEdges(g, e0, Ef_) ==
  LET v0 == e0[2]
      Vv == CeilingVisited(g, v0, {e0[1]} \cup (IF e0 \in Ef_ THEN {v0} ELSE {}))
  IN UNION {incomingEdgeOf(g, u) : u \in {x \in Vv : ~(isFoldingNode(g, x) \/ x = v0)}}

\* collectEdgesWithPath: the edges of C0 met walking backwards from Ef.
RECURSIVE BackwardVisited(_, _, _)
BackwardVisited(g, Ev, Q) ==
  IF Q = {} THEN Ev
  ELSE LET Ev2 == Ev \cup Q
           Q2 == UNION {incomingEdgeOf(g, e[1]) : e \in Q} \ Ev2
       IN BackwardVisited(g, Ev2, Q2)

collectEdgesWithPath(g, C0, Ef_) == C0 \cap BackwardVisited(g, {}, Ef_)

RECURSIVE CoverClosure(_, _, _, _)
CoverClosure(g, Ef_, C_, Q) ==
  IF Q = {} THEN C_
  ELSE LET new == UNION {GetWeakCeilingAdjacentEdges(g, f, Ef_) : f \in Q} \ C_
       IN CoverClosure(g, Ef_, C_ \cup new, new)

ComputeCoverEdges(g, Ef_) ==
  collectEdgesWithPath(g, CoverClosure(g, Ef_, Ef_, Ef_), Ef_)

\* The reachable graph without the forward step T.extend(En).
RECURSIVE ReachableEdges_noForward(_, _, _, _, _)
ReachableEdges_noForward(g, V0_, Ef_, Ev, Q) ==
  IF Q = {} THEN Ev
  ELSE LET Ev2 == Ev \cup Q
           prv == UNION {getPrevEdges(g, f) : f \in {x \in Q : x[1] \notin V0_}}
       IN ReachableEdges_noForward(g, V0_, Ef_, Ev2, prv \ Ev2)

\* The edges GetStepPendentEdgesWithReachableGraph inserts into H.
RECURSIVE ReachableEdges(_, _, _, _, _)
ReachableEdges(g, V0_, Ef_, Ev, Q) ==
  IF Q = {} THEN Ev
  ELSE LET Ev2 == Ev \cup Q
           nxt == UNION {getNextEdges(g, f) : f \in {x \in Q : x \notin Ef_}}
           prv == UNION {getPrevEdges(g, f) : f \in {x \in Q : x[1] \notin V0_}}
       IN ReachableEdges(g, V0_, Ef_, Ev2, (nxt \cup prv) \ Ev2)

\* Step-pendency without the succedent test on edges outside the cover set.
StepPendent_noSuccedentTest(g, C_, V0_, Ef_, f) ==
  \/ tier(f[2]) > 0 /\ CountIPrecedents(g, f) = 0
  \/ f \notin Ef_ /\ getNextEdges(g, f) = {}
  \/ f[1] \notin V0_ /\ getPrevEdges(g, f) = {}

StepPendent(g, C_, V0_, Ef_, f) ==
  \/ f \notin C_ /\ CountISuccedents(g, f) = 0
  \/ tier(f[2]) > 0 /\ CountIPrecedents(g, f) = 0
  \/ f \notin Ef_ /\ getNextEdges(g, f) = {}
  \/ f[1] \notin V0_ /\ getPrevEdges(g, f) = {}

GetStepPendentEdgesWithReachableGraph(g, C_, V0_, Ef_) ==
  LET E0 == UNION {outgoingEdgeOf(g, v0) : v0 \in V0_}
      Eh == ReachableEdges(g, V0_, Ef_, {}, E0)
      Hh == [V |-> UNION {{e[1], e[2]} : e \in Eh}, E |-> Eh]
  IN <<Hh, {f \in Eh : StepPendent(g, C_, V0_, Ef_, f)}>>

\* What one worklist iteration of ComputeFeasibleGraph that removes e puts
\* on the worklist, group by group, before e is removed.
\* The forward extension without the isMergingEdge gate.
QueuedNext_ungated(h, e) == getNextEdges(h, e)
QueuedNext(h, e) == IF ~isMergingEdge(h, e) THEN getNextEdges(h, e) ELSE {}
QueuedSuccedents(h, e) == {f \in GetISuccedents(h, e) : CountIPrecedents(h, f) = 1}
QueuedPrecedents(h, C_, e) ==
  {f \in GetIPrecedents(h, e) : f \notin C_ /\ CountISuccedents(h, f) = 1}
\* The worklist without the backward extension.
QueuedPrev_none(h, Ef_, e) == {}
QueuedPrev(h, Ef_, e) ==
  IF ~isSplittingEdge(h, e) THEN {f \in getPrevEdges(h, e) : f \notin Ef_} ELSE {}

\* if e in Ef_: Ef_.remove(e); if len(Ef_)==0: return the empty graph
LastTargetRemoved_never(EfRem_, e) == FALSE

LastTargetRemoved(EfRem_, e) == e \in EfRem_ /\ EfRem_ = {e}

\* ------------------------------------- original/feasibleGraph (sweeps)
\* The edges of one edge slice, E[i], and the floor edges among them.
SliceOf(g, i) == {e \in g.E : indexE(e) = i}
getFloorEdges(g, i) == {e \in SliceOf(g, i) : tier(e[2]) = 0}
minEdgeIndex(g) == CHOOSE i \in {indexE(e) : e \in g.E} : \A e \in g.E : i <= indexE(e)
maxEdgeIndex(g) == CHOOSE i \in {indexE(e) : e \in g.E} : \A e \in g.E : i >= indexE(e)

areAdjacent(e, f) == e[2] = f[1] \/ f[2] = e[1]

\* existsPathAvodingStartIndex(e0, f): f is met walking forward from e0,
\* where an edge other than e0 in the slice of e0 is met but not left.
RECURSIVE PathVisited(_, _, _, _)
PathVisited(g, e0, Ev, Q) ==
  IF Q = {} THEN Ev
  ELSE LET Ev2 == Ev \cup Q
           open == {e \in Q : e = e0 \/ indexE(e) # indexE(e0)}
       IN PathVisited(g, e0, Ev2, UNION {outgoingEdgeOf(g, e[2]) : e \in open} \ Ev2)

existsPathAvodingStartIndex(g, e0, f) == f \in PathVisited(g, e0, {}, {e0})

\* original ComputeCoverEdges: a weak ceiling-adjacent edge e of a cover
\* edge f is a cover edge when it is adjacent to f or a path leads from e
\* to f.
RECURSIVE Original_CoverClosure(_, _, _, _)
Original_CoverClosure(g, Ef_, C_, Q) ==
  IF Q = {} THEN C_
  ELSE LET new == {e \in g.E \ C_ :
                     \E f \in Q : /\ e \in GetWeakCeilingAdjacentEdges(g, f, Ef_)
                                  /\ \/ areAdjacent(e, f)
                                     \/ existsPathAvodingStartIndex(g, e, f)}
       IN Original_CoverClosure(g, Ef_, C_ \cup new, new)

Original_ComputeCoverEdges(g, Ef_) == Original_CoverClosure(g, Ef_, Ef_, Ef_)

\* IsIndexAdjacent(G, f, Ei, Ef, V0), Ei the slice idx of the graph h.
IsIndexAdjacent(g, f, h, idx, Ef_, V0_) ==
  \/ /\ index(f[1]) \in {idx, idx + 1}
     /\ \E e \in SliceOf(h, idx) : e[2] = f[1]
  \/ /\ index(f[2]) \in {idx, idx + 1}
     /\ \E e \in SliceOf(h, idx) : e[1] = f[2]
  \/ /\ idx = indexE(f) - dirE(f)
     /\ isFoldingNode(g, f[1]) \/ f[1] \in V0_
  \/ /\ idx = indexE(f) + dirE(f)
     /\ isFoldingNode(g, f[2]) \/ f \in Ef_

\* StepUpEdges: from the floor edges of slice i upwards through the
\* index-succedents of the edges that are index-adjacent.
RECURSIVE StepUpClosure(_, _, _, _, _, _, _, _)
StepUpClosure(g, h, idx, V0_, Ef_, Ev, I, Q) ==
  IF Q = {} THEN I
  ELSE LET Ev2 == Ev \cup Q
           adj == {e \in Q : IsIndexAdjacent(g, e, h, idx, Ef_, V0_)}
       IN StepUpClosure(g, h, idx, V0_, Ef_, Ev2, I \cup adj,
                        UNION {GetISuccedents(g, e) : e \in adj} \ Ev2)

StepUpEdges(g, h, i, idx, V0_, Ef_) ==
  StepUpClosure(g, h, idx, V0_, Ef_, {}, {}, getFloorEdges(g, i))

\* StepDownEdges: from the cover edges of I downwards through the
\* index-precedents inside I; what is met is added to H.
RECURSIVE StepDownClosure(_, _, _, _)
StepDownClosure(g, I, Ev, Q) ==
  IF Q = {} THEN Ev
  ELSE LET Ev2 == Ev \cup Q
       IN StepDownClosure(g, I, Ev2,
                          (UNION {GetIPrecedents(g, e) : e \in Q} \cap I) \ Ev2)

StepDownEdges(g, h, I, C_) ==
  LET I_ == StepDownClosure(g, I, {}, I \cap C_)
  IN [V |-> h.V \cup UNION {{e[1], e[2]} : e \in I_}, E |-> h.E \cup I_]

\* SweepEdges(G, C, V0, Ef, i, d): slice after slice in direction d until
\* a slice of G without edges.
RECURSIVE SweepLoop(_, _, _, _, _, _, _)
SweepLoop(g, C_, V0_, Ef_, i, d, h) ==
  IF SliceOf(g, i) = {} THEN h
  ELSE SweepLoop(g, C_, V0_, Ef_, i + d, d,
                 StepDownEdges(g, h, StepUpEdges(g, h, i, i - d, V0_, Ef_), C_))

SweepEdges(g, C_, V0_, Ef_, i, d) == SweepLoop(g, C_, V0_, Ef_, i, d, EmptyGraph)

\* original ComputeFeasibleGraph: sweeps to the right and to the left
\* until the graph is empty or a pair of sweeps leaves its size as it was.
RECURSIVE Original_SweepUntilStable(_, _, _, _, _)
Original_SweepUntilStable(h, n, C_, V0_, Ef_) ==
  IF size(h) = 0 \/ n = size(h) THEN h
  ELSE LET h1 == SweepEdges(h, C_, V0_, Ef_, minEdgeIndex(h), 1)
       IN IF size(h1) = 0 THEN h1
          ELSE Original_SweepUntilStable(
                 SweepEdges(h1, C_, V0_, Ef_, maxEdgeIndex(h1), -1), size(h), C_, V0_, Ef_)

Original_ComputeFeasibleGraph(g, V0_, Ef_) ==
  Original_SweepUntilStable(g, 0, Original_ComputeCoverEdges(g, Ef_), V0_, Ef_)

\* ComputeFeasibleGraph, entry: cover edges, candidate graph, first worklist.
FGStart ==
  /\ pc = "fg_start" /\ fgModule = "main"
  /\ LET cov == ComputeCoverEdges(G, Ef)
         hr == GetStepPendentEdgesWithReachableGraph(G, cov, V0, Ef)
     IN /\ C' = cov
        /\ H' = hr[1]
        /\ T' = Push(<<>>, hr[2])
  /\ EfRem' = Ef
  /\ pc' = "fg_loop"
  /\ fgLast' = [kind |-> "start", h0 |-> Cardinality(H'.E), removed |-> 0, pushed |-> 0]
  /\ UNCHANGED <<dcgVars, simVars, vwVars, tm, G0, G, V0, Ef, fgRet, fgResult>>

InputAfterWrite_sameObject(input, written) == written

\* What a write to the graph ComputeFeasibleGraph works on or has returned
\* leaves in the graph it was called with: H is made as a new
\* DynamicComputationGraph and the early return gives another new one, so
\* the graph written to is never the input object.
InputAfterWrite(input, written) == input

\* e = T.pop(); if not H.hasEdge(e): continue
FGSkip ==
  /\ pc = "fg_loop" /\ T # <<>>
  /\ \E e \in Top(T) :
       /\ ~hasEdge(H, e)
       /\ T' = PopFrom(T, e)
  /\ fgLast' = [fgLast EXCEPT !.kind = "skip", !.pushed = 0]
  /\ UNCHANGED <<dcgVars, simVars, vwVars, tm, pc, G0, G, V0, Ef, C, H, EfRem, fgRet, fgResult>>

\* e = T.pop() is an edge of H: queue its neighbours, remove it, and give
\* up with the empty graph once the last target is gone.
FGRemove ==
  /\ pc = "fg_loop" /\ T # <<>>
  /\ \E e \in Top(T) :
       /\ hasEdge(H, e)
       /\ LET T1 == Push(PopFrom(T, e), QueuedNext(H, e))
              T2 == Push(T1, QueuedSuccedents(H, e))
              T3 == Push(T2, QueuedPrecedents(H, C, e))
              T4 == Push(T3, QueuedPrev(H, Ef, e))
              lastTarget == LastTargetRemoved(EfRem, e)
          IN /\ T' = T4
             /\ H' = removeEdge(H, e)
             /\ G' = InputAfterWrite(G, removeEdge(H, e))
             /\ EfRem' = EfRem \ {e}
             /\ fgLast' = [fgLast EXCEPT !.kind = "remove", !.removed = @ + 1,
                                         !.pushed = SumSizes(T4) - SumSizes(T) + 1]
             /\ IF lastTarget
                THEN /\ fgResult' = EmptyGraph
                     /\ pc' = fgRet
                ELSE /\ fgResult' = fgResult
                     /\ pc' = pc
  /\ UNCHANGED <<dcgVars, simVars, vwVars, tm, G0, V0, Ef, C, fgRet>>

\* The worklist is empty: return H.
FGReturn ==
  /\ pc = "fg_loop" /\ T = <<>>
  /\ fgResult' = H
  /\ pc' = fgRet
  /\ fgLast' = [fgLast EXCEPT !.kind = "return", !.pushed = 0]
  /\ UNCHANGED <<dcgVars, simVars, vwVars, tm, G0, G, V0, Ef, C, H, T, EfRem, fgRet>>

\* original's ComputeFeasibleGraph in place of main's, as one step.
FGOriginal ==
  /\ pc = "fg_start" /\ fgModule = "original"
  /\ fgResult' = Original_ComputeFeasibleGraph(G, V0, Ef)
  /\ pc' = fgRet
  /\ UNCHANGED <<dcgVars, simVars, vwVars, tm, G0, G, V0, Ef, C, H, T, EfRem, fgRet, fgLast>>

\* ------------------------------------------------- graphs under test (FG)
PoolStates == {"q0"}
PoolSymbols == {"a"}
PoolVertices ==
  {FloorVertex(i, q, s) : i \in 0..MaxIndex, q \in PoolStates, s \in PoolSymbols}
  \cup {<<i, t, q, s, pq, ps>> : i \in 0..MaxIndex, t \in 1..MaxTier,
                                  q \in PoolStates, s \in PoolSymbols,
                                  pq \in PoolStates, ps \in PoolSymbols}
PoolEdges ==
  {e \in PoolVertices \X PoolVertices : dirE(e) = 1 \/ dirE(e) = -1}

NoGraph == [V |-> {}, E |-> {}]
NoLast == [kind |-> "none", h0 |-> 0, removed |-> 0, pushed |-> 0]

NoEdge == <<>>
NoPrune == [e_ |-> NoEdge, preserve |-> FALSE, Eo |-> {}, T |-> <<>>, Ev |-> {}]
NoHist == [outerPrev |-> -1, present |-> TRUE, innerPrev |-> -1, disjoint |-> 0, pruned |-> 0]
NoResult == [kind |-> "running", W |-> <<>>]

VWIdle ==
  /\ ef = NoEdge /\ Gw = NoGraph /\ Gc = NoGraph /\ shared = FALSE
  /\ R = {} /\ W = <<>> /\ we = NoEdge /\ S = <<>> /\ seen = {}
  /\ prune = NoPrune /\ vwRet = "done" /\ vwResult = NoResult /\ hist = NoHist

NoTape == <<>>

NoRuns ==
  [n |-> 0, delta |-> 0, L |-> <<>>, m |-> 0, answer |-> "none",
   between |-> [delta |-> 0, answer |-> "none"]]
NoCand == [ef |-> <<>>, before |-> [V |-> {}, E |-> {}], result |-> "none"]

SimIdle ==
  /\ simCand = NoCand
  /\ fgModule = "main" /\ mainAnswer = "none" /\ procRun = NoRuns
  /\ simL = NoTape /\ simM = 0 /\ GV = {} /\ simQ = {} /\ simEv = {}
  /\ xe = NoEdge /\ xS = <<>> /\ xR = <<>> /\ xT = <<>> /\ walkLength = 0
  /\ accepted = FALSE /\ yesWitness = <<>> /\ answer = "none"

NoOp == <<>>

NoCall ==
  [n |-> 0, T |-> <<>>, P |-> <<>>, kind |-> "none", v |-> <<>>, before |-> {},
   made |-> 0, got |-> <<>>, held |-> {}, heldBefore |-> {}]

\* CellArray.__init__: base 0 and nothing in the list
NewCellArray == [base |-> 0, items |-> <<>>]
NoRead == [n |-> 0, i |-> 0, v |-> <<>>, before |-> NewCellArray]

DcgIdle ==
  /\ dcg = <<>> /\ dcgV = <<>> /\ dcgLast = NoOp /\ caseCall = NoCall
  /\ cells = NewCellArray /\ cellRead = NoRead

InitFG ==
  /\ DcgIdle
  /\ VWIdle
  /\ SimIdle
  /\ tm = 1
  /\ pc = "build"
  /\ G0 = EmptyGraph
  /\ G = NoGraph
  /\ V0 = {} /\ Ef = {} /\ C = {} /\ H = NoGraph /\ T = <<>> /\ EfRem = {}
  /\ fgRet = "done" /\ fgResult = NoGraph /\ fgLast = NoLast

\* G0.addEdge(e) while the graph under test is put together
BuildAddEdge ==
  /\ pc = "build"
  /\ size(G0) < MaxEdges
  /\ \E e \in PoolEdges \ G0.E : G0' = addEdge(G0, e)
  /\ UNCHANGED <<dcgVars, simVars, vwVars, tm, pc, G, V0, Ef, C, H, T, EfRem, fgRet, fgResult, fgLast>>

\* ComputeFeasibleGraph(G0, V0, Ef) is called
FGCall ==
  /\ pc = "build"
  /\ G0.E # {}
  /\ \E v \in G0.V, fs \in {x \in SUBSET G0.E : x # {} /\ Cardinality(x) <= MaxTargets} :
       /\ V0' = {v}
       /\ Ef' = fs
  /\ G' = G0
  /\ pc' = "fg_start"
  /\ fgRet' = "done"
  /\ UNCHANGED <<dcgVars, simVars, vwVars, tm, G0, C, H, T, EfRem, fgResult, fgLast>>

NextFG == BuildAddEdge \/ FGCall \/ FGStart \/ FGSkip \/ FGRemove \/ FGReturn

SpecFG == InitFG /\ [][NextFG]_vars

\* ------------------------------------------------------ verificationWalk
\* G.IPrecedent(v) of a vertex above the floor, as the transition case the
\* walk compares with its surface.
IPrecedentCase(v) == <<index(v), tier(v) - 1, last_state(v), last_symbol(v)>>

\* ES[0], EN[0]: outgoingEdgeOf lists the right-going edges before the
\* left-going ones; inside one list the order is insertion order.
FirstOf(Es) ==
  LET right == {e \in Es : dirE(e) > 0}
  IN IF right # {} THEN right ELSE Es

\* A surface that keeps the first edge it was given for a slice.
SurfaceSet_keepsFirst(S_, i, k) ==
  [j \in (DOMAIN S_) \cup {i} |-> IF j \in DOMAIN S_ THEN S_[j] ELSE k]

SurfaceSet(S_, i, k) ==
  [j \in (DOMAIN S_) \cup {i} |-> IF j = i THEN k ELSE S_[j]]

InWalk_nonEmpty(e, W_) == Len(W_) > 0
InWalk(e, W_) == \E i \in 1..Len(W_) : W_[i] = e
WalkEdges(W_) == {W_[i] : i \in 1..Len(W_)}

FindFirstMergingEdgeOrFinalEdge(g, W_) ==
  LET idx == {i \in 1..(Len(W_) - 1) : isMergingEdge(g, W_[i])}
  IN IF idx = {} THEN W_[Len(W_)]
     ELSE W_[CHOOSE i \in idx : \A j \in idx : i <= j]

FindDisjointEdge(R_, W_) ==
  LET idx == {i \in 1..Len(W_) : W_[i] \notin R_}
  IN IF idx = {} THEN NoEdge
     ELSE W_[CHOOSE i \in idx : \A j \in idx : i <= j]

\* Leaving VerifyExistenceOfWalk with a walk or with None.
VWReturn(kind, W_) ==
  /\ vwResult' = [kind |-> kind, W |-> W_]
  /\ pc' = vwRet

\* VerifyExistenceOfWalk, entry: G = ComputeFeasibleGraph(G0, V0, {ef}).
VWStart ==
  /\ pc = "vw_start"
  /\ G' = G0 /\ Ef' = {ef} /\ fgRet' = "vw_fg" /\ pc' = "fg_start"
  /\ Gw' = NoGraph /\ Gc' = NoGraph /\ shared' = FALSE
  /\ R' = {} /\ W' = <<>> /\ we' = NoEdge /\ S' = <<>> /\ seen' = {}
  /\ prune' = NoPrune /\ vwResult' = NoResult
  /\ hist' = [NoHist EXCEPT !.disjoint = hist.disjoint, !.pruned = hist.pruned]
  /\ UNCHANGED <<dcgVars, simVars, tm, G0, V0, C, H, T, EfRem, fgResult, fgLast, ef, vwRet>>

\* while G.size()>0: enter FindFeasibleOrDisjointEdge on a copy of G, which
\* shares the vertex registry of G; an empty G returns None.
VWLoop ==
  /\ pc = "vw_fg"
  /\ Gw' = fgResult
  /\ IF size(fgResult) = 0
     THEN /\ VWReturn("None", <<>>)
          /\ UNCHANGED <<Gc, shared, R, hist>>
     ELSE /\ Gc' = fgResult /\ shared' = TRUE /\ R' = {}
          /\ hist' = [hist EXCEPT !.outerPrev = size(fgResult), !.innerPrev = -1]
          /\ pc' = "ff_loop"
          /\ UNCHANGED vwResult
  /\ UNCHANGED <<dcgVars, simVars, tm, G0, V0, fgVars, ef, W, we, S, seen, prune, vwRet>>

\* Head of the loop of FindFeasibleOrDisjointEdge and the start of
\* TakeArbitraryWalk: no graph left or no edge out of v0 ends the search
\* with (None, None), for which VerifyExistenceOfWalk returns None.
FFLoop ==
  /\ pc = "ff_loop"
  /\ LET ES == UNION {outgoingEdgeOf(Gc, v0) : v0 \in V0}
     IN IF size(Gc) = 0 \/ ES = {}
        THEN /\ VWReturn("None", <<>>)
             /\ UNCHANGED <<W, we, S, seen, hist>>
        ELSE /\ \E e \in FirstOf(ES) : we' = e
             /\ W' = <<>> /\ S' = <<>> /\ seen' = {}
             /\ hist' = [hist EXCEPT !.innerPrev = size(Gc)]
             /\ pc' = "walk"
             /\ UNCHANGED vwResult
  /\ UNCHANGED <<dcgVars, simVars, tm, G0, V0, fgVars, ef, Gw, Gc, shared, R, prune, vwRet>>

\* One iteration of the loop of TakeArbitraryWalk.  Reading the surface at
\* an index the walk has not been at yields None, and comparing a
\* transition case with None raises AttributeError; a walk that is again
\* at an edge with the same surface repeats its choices for ever.
WalkStep ==
  /\ pc = "walk"
  /\ LET S1 == SurfaceSet(S, index(we[1]), transitionCase(we[1]))
         W1 == Append(W, we)
         cand == getNextEdges(Gc, we)
         raises == \E f \in cand : tier(f[2]) > 0 /\ index(f[2]) \notin DOMAIN S1
         EN == {f \in cand : \/ tier(f[2]) = 0
                             \/ IPrecedentCase(f[2]) = S1[index(f[2])]}
     IN IF <<we, S>> \in seen
        THEN /\ pc' = "walk_forever"
             /\ UNCHANGED <<W, we, S, seen>>
        ELSE /\ W' = W1 /\ S' = S1
             /\ seen' = seen \cup {<<we, S>>}
             /\ IF raises
                THEN pc' = "crashed" /\ we' = we
                ELSE IF EN = {}
                     THEN pc' = "ff_walked" /\ we' = NoEdge
                     ELSE pc' = "walk" /\ \E f \in FirstOf(EN) : we' = f
  /\ UNCHANGED <<dcgVars, simVars, tm, G0, V0, fgVars, ef, Gw, Gc, shared, R, prune, vwRet, vwResult, hist>>

\* After the walk: a walk through ef is returned; with R filled, the first
\* edge of W outside R is the disjoint edge VerifyExistenceOfWalk removes
\* from G before it recomputes the feasible graph (no such edge: None);
\* otherwise PruneWalk(G_U, G, V0, Ef, W, False) removes e_ and calls
\* ComputeFeasibleGraph.
FFWalked ==
  /\ pc = "ff_walked"
  /\ IF InWalk(ef, W)
     THEN /\ VWReturn("walk", W)
          /\ UNCHANGED <<G0, fgVars, Gw, prune, hist>>
     ELSE IF R # {}
     THEN LET f == FindDisjointEdge(R, W)
          IN IF f = NoEdge
             THEN /\ VWReturn("None", <<>>)
                  /\ UNCHANGED <<G0, fgVars, Gw, prune, hist>>
             ELSE /\ hist' = [hist EXCEPT !.disjoint = @ + 1,
                                          !.present = hasEdge(Gw, f)]
                  /\ Gw' = removeEdge(Gw, f)
                  /\ G0' = InputAfterWrite(G0, removeEdge(Gw, f))
                  /\ G' = removeEdge(Gw, f) /\ Ef' = {ef}
                  /\ fgRet' = "vw_fg" /\ pc' = "fg_start"
                  /\ UNCHANGED <<C, H, T, EfRem, fgResult, fgLast, prune, vwResult>>
     ELSE LET e_ == FindFirstMergingEdgeOrFinalEdge(Gc, W)
          IN /\ prune' = [NoPrune EXCEPT !.e_ = e_]
             /\ hist' = [hist EXCEPT !.pruned = @ + 1]
             /\ G' = removeEdge(Gc, e_) /\ Ef' = {ef}
             /\ fgRet' = "prune_fg" /\ pc' = "fg_start"
             /\ UNCHANGED <<G0, C, H, T, EfRem, fgResult, fgLast, Gw, vwResult>>
  /\ UNCHANGED <<dcgVars, simVars, tm, V0, ef, Gc, shared, R, W, we, S, seen, vwRet>>

\* One iteration of the loop of AddFinalEdgesOfObsoleteWalks(G_U, G, V0);
\* when its worklist is empty PruneWalk removes e_ and computes the
\* feasible graph for Eo | Ef.
AddFinalStep ==
  /\ pc = "addfinal"
  /\ IF prune.T = <<>>
     THEN /\ G' = removeEdge(Gc, prune.e_) /\ Ef' = prune.Eo \cup {ef}
          /\ fgRet' = "prune_fg" /\ pc' = "fg_start"
          /\ hist' = [hist EXCEPT !.pruned = @ + 1]
          /\ UNCHANGED <<C, H, T, EfRem, fgResult, fgLast, Gw, Gc, prune>>
     ELSE \E e \in Top(prune.T) :
            LET T1 == PopFrom(prune.T, e)
            IN /\ IF e \in prune.Ev
                  THEN /\ prune' = [prune EXCEPT !.T = T1]
                       /\ UNCHANGED <<Gw, Gc>>
                  ELSE IF hasEdge(Gc, e)
                  THEN /\ prune' = [prune EXCEPT !.T = Push(T1, getNextEdges(G0, e)),
                                                 !.Ev = @ \cup {e}]
                       /\ UNCHANGED <<Gw, Gc>>
                  ELSE IF tier(e[2]) > 0 /\ CountIPrecedents(Gc, e) > 0
                  THEN /\ prune' = [prune EXCEPT !.T = T1, !.Ev = @ \cup {e},
                                                 !.Eo = @ \cup {e}]
                       /\ Gc' = addEdge(Gc, e)
                       /\ Gw' = IF shared THEN [Gw EXCEPT !.V = @ \cup {e[1], e[2]}]
                                ELSE Gw
                  ELSE /\ prune' = [prune EXCEPT !.T = T1, !.Ev = @ \cup {e}]
                       /\ UNCHANGED <<Gw, Gc>>
               /\ UNCHANGED <<fgVars, pc, hist>>
  /\ UNCHANGED <<dcgVars, simVars, tm, G0, V0, ef, shared, R, W, we, S, seen, vwRet, vwResult>>

\* PruneWalk after ComputeFeasibleGraph: e_ is put back, and the obsolete
\* final edges are taken out of a non-empty result when ef is an edge of G.
\* original's ComputeFeasibleGraph hands back the graph it was given
\* when that graph has no edge; G.addEdge(e_) then puts e_ into that very
\* graph, which is G as it was before e_ was removed.
ReturnedInput == fgModule = "original" /\ size(G) = 0

PrunedGraph == IF ReturnedInput THEN Gc ELSE fgResult

PruneResult ==
  IF size(PrunedGraph) > 0 /\ hasEdge(Gc, ef)
  THEN [PrunedGraph EXCEPT !.E = @ \ prune.Eo]
  ELSE PrunedGraph

\* Back in FindFeasibleOrDisjointEdge: an empty pruned graph records W in R
\* and prunes again, preserving the obsolete walks; any other result is
\* the graph of the next iteration.
PruneReturn ==
  /\ pc = "prune_fg"
  /\ IF ~prune.preserve /\ size(PruneResult) = 0
     THEN /\ R' = R \cup WalkEdges(W)
          /\ prune' = [prune EXCEPT !.preserve = TRUE,
                         !.T = Push(<<>>, UNION {outgoingEdgeOf(G0, v0) : v0 \in V0})]
          /\ pc' = "addfinal"
          /\ UNCHANGED <<Gc, shared>>
     ELSE /\ Gc' = PruneResult /\ shared' = (ReturnedInput /\ shared)
          /\ pc' = "ff_loop"
          /\ UNCHANGED <<R, prune>>
  /\ UNCHANGED <<dcgVars, simVars, tm, G0, V0, fgVars, ef, Gw, W, we, S, seen, vwRet, vwResult, hist>>

\* The recorded graph: edges of the graph H that the simulation of Machine2
\* on tape "b" with one certificate cell hands to VerifyExistenceOfWalk.
RecordedEdges == {
    <<FloorVertex(0, "q0", "b"), FloorVertex(1, "q1", "a")>>,
    <<<<1, 3, "q3", "a", "q3", "b">>, <<2, 2, "q2", Blank, "q1", "b">>>>,
    <<<<2, 3, "q2", "b", "q2", Blank>>, <<1, 4, "q1", "a", "q3", "a">>>>,
    <<FloorVertex(1, "q1", "a"), FloorVertex(2, "q2", Blank)>>,
    <<FloorVertex(0, "q0", "b"), FloorVertex(1, "q1", "b")>>,
    <<<<2, 4, "q2", "a", "q2", "b">>, <<1, 5, "q1", "b", "q1", "a">>>>,
    <<<<0, 1, "q3", "b", "q0", "b">>, <<1, 1, "q1", Blank, "q1", "b">>>>,
    <<FloorVertex(2, "q2", Blank), <<1, 2, "q3", "b", "q1", Blank>>>>,
    <<<<1, 1, "q1", Blank, "q1", "b">>, FloorVertex(2, "q2", Blank)>>,
    <<<<1, 4, "q1", "a", "q3", "a">>, <<2, 4, "q2", "a", "q2", "b">>>>,
    <<<<1, 3, "q3", "a", "q3", "a">>, <<2, 3, "q2", "b", "q2", Blank>>>>,
    <<<<2, 1, "q1", "b", "q2", Blank>>, <<1, 3, "q3", "a", "q3", "b">>>>,
    <<<<2, 1, "q1", "b", "q2", Blank>>, <<1, 2, "q3", "a", "q3", "b">>>>,
    <<<<0, 1, "q3", "b", "q0", "b">>, <<1, 6, "q1", Blank, "q1", "b">>>>,
    <<<<1, 2, "q3", "b", "q1", Blank>>, <<2, 1, "q1", "b", "q2", Blank>>>>,
    <<<<1, 2, "q3", "a", "q3", "b">>, <<2, 2, "q2", Blank, "q1", "b">>>>,
    <<<<1, 1, "q3", "b", "q1", "a">>, <<2, 1, "q1", "b", "q2", Blank>>>>,
    <<FloorVertex(1, "q1", "b"), <<0, 1, "q3", "b", "q0", "b">>>>,
    <<FloorVertex(2, "q2", Blank), <<1, 1, "q3", "b", "q1", "a">>>>,
    <<<<2, 2, "q2", Blank, "q1", "b">>, <<1, 3, "q3", "a", "q3", "a">>>>,
    <<<<1, 5, "q1", "b", "q1", "a">>, <<0, 2, "q3", "a", "q3", "b">>>>}

RecordedGraph ==
  [V |-> UNION {{e[1], e[2]} : e \in RecordedEdges}, E |-> RecordedEdges]

\* A graph whose target edge, on tier 2, is cut off from the start vertex:
\* the part around the start vertex has two ways into cell 1 and a loop
\* between the cells 0 and 1.
StrandedEdges == {
    <<FloorVertex(0, "q0", "a"), <<1, 1, "q0", "a", "q0", "a">>>>,
    <<FloorVertex(0, "q0", "a"), FloorVertex(1, "q0", "a")>>,
    <<<<1, 1, "q0", "a", "q0", "a">>, <<0, 1, "q0", "a", "q0", "a">>>>,
    <<FloorVertex(1, "q0", "a"), <<0, 1, "q0", "a", "q0", "a">>>>,
    <<<<0, 1, "q0", "a", "q0", "a">>, FloorVertex(1, "q0", "a")>>,
    <<<<1, 2, "q0", "a", "q0", "a">>, <<0, 2, "q0", "a", "q0", "a">>>>}

StrandedGraph ==
  [V |-> UNION {{e[1], e[2]} : e \in StrandedEdges}, E |-> StrandedEdges]

InitVW ==
  /\ DcgIdle
  /\ VWIdle
  /\ SimIdle
  /\ tm \in {1, 2, 3}
  /\ pc = "build"
  /\ G0 = CASE tm = 1 -> EmptyGraph [] tm = 2 -> RecordedGraph [] OTHER -> StrandedGraph
  /\ G = NoGraph
  /\ V0 = {} /\ Ef = {} /\ C = {} /\ H = NoGraph /\ T = <<>> /\ EfRem = {}
  /\ fgRet = "done" /\ fgResult = NoGraph /\ fgLast = NoLast

\* The caller of VerifyExistenceOfWalk: v0 is a floor vertex of cell 0 and
\* ef an edge of the graph.
VWCall ==
  /\ pc = "build"
  /\ \E v \in {x \in G0.V : index(x) = 0 /\ tier(x) = 0}, e \in G0.E :
       /\ V0' = {v}
       /\ ef' = e
  /\ pc' = "vw_start"
  /\ vwRet' = "done"
  /\ UNCHANGED <<dcgVars, simVars, tm, G0, fgVars, Gw, Gc, shared, R, W, we, S, seen, prune, vwResult, hist>>

NextVW ==
  \/ BuildAddEdge \/ VWCall \/ VWStart \/ VWLoop \/ FFLoop \/ WalkStep
  \/ FFWalked \/ AddFinalStep \/ PruneReturn
  \/ FGStart \/ FGSkip \/ FGRemove \/ FGReturn

SpecVW == InitVW /\ [][NextVW]_vars

\* ------------------------------------------- simulateAllCertificatePoly
CertSymbols == {"a", "b"}

\* CellArray.__setitem__ of an untyped array: only an index next to or
\* inside the filled range may be set ("Wrong set item").
CellSetOk(R_, i) ==
  IF DOMAIN R_ = {} THEN i \in {-1, 0}
  ELSE \E j \in DOMAIN R_ : i \in {j - 1, j, j + 1}

\* "".join(R).strip(Blank)
Joined(R_) ==
  IF DOMAIN R_ = {} THEN <<>>
  ELSE LET lo == CHOOSE i \in DOMAIN R_ : \A j \in DOMAIN R_ : i <= j
       IN [k \in 1..Cardinality(DOMAIN R_) |-> R_[lo + k - 1]]

RECURSIVE StripLeft(_)
StripLeft(s) ==
  IF s # <<>> /\ Head(s) = Blank THEN StripLeft(Tail(s)) ELSE s

RECURSIVE StripRight(_)
StripRight(s) ==
  IF s # <<>> /\ s[Len(s)] = Blank
  THEN StripRight(SubSeq(s, 1, Len(s) - 1)) ELSE s

Strip(s) == StripRight(StripLeft(s))

\* NPDynamicComputationGraph.GetFloorNextEdges: outside the tape and its
\* certificate cells the blank, on the tape its symbol, on a certificate
\* cell one edge for each certificate symbol.
GetFloorNextEdges_freeTape(v) ==
  LET i_ == next_index(v)
      q_ == next_state(v)
  IN IF i_ < 0 \/ i_ >= Len(simL) + simM
     THEN {<<v, FloorVertex(i_, q_, Blank)>>}
     ELSE {<<v, FloorVertex(i_, q_, s_)>> : s_ \in Gamma \ {Blank}}

GetFloorNextEdges(v) ==
  LET i_ == next_index(v)
      q_ == next_state(v)
  IN IF i_ < 0 \/ i_ >= Len(simL) + simM
     THEN {<<v, FloorVertex(i_, q_, Blank)>>}
     ELSE IF i_ < Len(simL)
     THEN {<<v, FloorVertex(i_, q_, simL[i_ + 1])>>}
     ELSE {<<v, FloorVertex(i_, q_, s_)>> : s_ \in CertSymbols}

\* The assertion of GetNextEdgesAbovePreds: every edge of Ep ends in the
\* cell of u and starts in the cell u moves to.
AbovePredsOk(u, Ep) ==
  \A e \in Ep \ {NoEdge} :
     index(e[2]) = index(u) /\ next_index(u) = index(e[1])

\* The vertex one tier above v, read in state q with what v wrote.
AboveVertex_staleSymbol(v, q) ==
  <<index(v), tier(v) + 1, q, symbol(v), state(v), symbol(v)>>

AboveVertex(v, q) ==
  <<index(v), tier(v) + 1, q, output(v), state(v), symbol(v)>>

GetNextEdgesAbovePreds(u, Ep) ==
  UNION {IF e = NoEdge THEN GetFloorNextEdges(u)
         ELSE {<<u, AboveVertex(e[1], next_state(u))>>} : e \in Ep}

\* for w in v.transitionCase(): the vertices created in the case of v.  The
\* vertices carry the cases of G's registry, so a vertex G made for an edge
\* that was never put into H, or was taken out again, counts.
isCombiningEdge(h, e) ==
  \E w \in {x \in GV : transitionCase(x) = transitionCase(e[2])} \ {e[2]} :
     \/ \E f \in incomingEdgeOf(h, w) :
           dirE(f) = dirE(e) /\ transitionCase(f[1]) # transitionCase(e[1])
     \/ isFoldingNode(h, w) # isFoldingNode(h, e[2])

isPseudoCombiningEdge(h, e) ==
  /\ ~isFoldingNode(h, e[2])
  /\ \E s \in ISuccedent(h, e[2]) : isFoldingNode(h, s)

\* H.isMergingEdge(e) or H.isPseudoCombiningEdge(e) or H.isCombiningEdge(e)
IsCeilingEdge(h, e) ==
  isMergingEdge(h, e) \/ isPseudoCombiningEdge(h, e) \/ isCombiningEdge(h, e)

RECURSIVE ForwardWithin(_, _, _, _)
ForwardWithin(g, es, Ev, Q) ==
  IF Q = {} THEN Ev
  ELSE LET Ev2 == Ev \cup Q
           open == {e \in Q : e = es \/ indexE(e) # indexE(es)}
       IN ForwardWithin(g, es, Ev2, UNION {getNextEdges(g, e) : e \in open} \ Ev2)

filterWithPathForward(g, es, Ef_) == Ef_ \cap ForwardWithin(g, es, {}, {es})

RECURSIVE BackwardWithin(_, _, _, _)
BackwardWithin(g, i0, Ev, Q) ==
  IF Q = {} THEN Ev
  ELSE LET Ev2 == Ev \cup Q
           open == {e \in Q : indexE(e) # i0}
       IN BackwardWithin(g, i0, Ev2, UNION {getPrevEdges(g, e) : e \in open} \ Ev2)

\* None is never on the worklist, so a None in Es is never collected.
filterWithPathBackward(g, e, Es) ==
  LET v == e[2]
      i0 == IF index(v) < next_index(v) THEN index(v) ELSE next_index(v)
  IN IF Es = {} THEN {} ELSE Es \cap BackwardWithin(g, i0, {}, {e})

GetForwardWeakCeilingAdjacentEdges(g, e0) ==
  LET v0 == e0[2]
      Vv == CeilingVisited(g, v0, {v0})
      up == {x \in Vv : isFoldingNode(g, x) \/ x = v0}
  IN IF state(v0) \in Halting THEN {}
     ELSE UNION {incomingEdgeOf(g, u) : u \in Vv \ up}
          \cup (IF \E u \in up : IPrecedent(g, u) = {} THEN {NoEdge} ELSE {})

\* The vertices AddExtendableEdgeOnCeilingEdges takes from its worklist:
\* the succedents of v, and of every folding node among them.
RECURSIVE FoldingSuccedents(_, _, _)
FoldingSuccedents(h, Vv, Q) ==
  IF Q = {} THEN Vv
  ELSE LET Vv2 == Vv \cup Q
           nxt == UNION {ISuccedent(h, w) : w \in {x \in Q : isFoldingNode(h, x)}}
       IN FoldingSuccedents(h, Vv2, nxt \ Vv2)

\* The pairs AddExtendableEdgeOnCeilingEdges(H, S, Ev) adds to Ev.
AddExtendableEdgeOnCeilingEdges(h, S_) ==
  UNION {
    LET turning == {w \in FoldingSuccedents(h, {}, ISuccedent(h, e[2])) :
                       ~isFoldingNode(h, w) /\ next_index(w) = index(e[1])}
    IN {<<e, ec>> : ec \in UNION {filterWithPathForward(h, e, incomingEdgeOf(h, w)) :
                                    w \in turning}}
    : e \in {x \in {S_[i] : i \in DOMAIN S_} : IsCeilingEdge(h, x)}}

\* CollectRestrictedBoundaryEdges: the pairs it does not skip, the
\* precedent edges of a pair, its assertions and the edges it returns.
BoundaryPairs(Ev) ==
  {p \in Ev : ~(next_index(p[2][2]) = index(p[2][1]) \/ state(p[2][2]) \in Halting)}

BoundaryPreds(h, p) ==
  IF p[1] = NoEdge
  THEN filterWithPathBackward(h, p[2], GetForwardWeakCeilingAdjacentEdges(h, p[2]))
  ELSE {p[1]}

BoundaryNext(h, Ev) ==
  UNION {GetNextEdgesAbovePreds(p[2][2], BoundaryPreds(h, p)) : p \in BoundaryPairs(Ev)}

CollectRestrictedBoundaryEdges(h, Ev) == BoundaryNext(h, Ev) \ h.E

\* The first loop of ExtendEdgeDirectlyWithWalk over the verified walk W:
\* R takes the symbol of every floor vertex the walk leaves, S the edges
\* before the first edge that is not in H.
FirstNewEdge(h, W_) ==
  LET idx == {i \in 1..Len(W_) : ~hasEdge(h, W_[i])}
  IN IF idx = {} THEN Len(W_) ELSE CHOOSE i \in idx : \A j \in idx : i <= j

AllInGraph(h, W_) == \A i \in 1..Len(W_) : hasEdge(h, W_[i])

RECURSIVE SurfaceOfWalk(_, _)
SurfaceOfWalk(W_, k) ==
  IF k = 0 THEN <<>>
  ELSE SurfaceSet(SurfaceOfWalk(W_, k - 1), indexE(W_[k]), W_[k])

RECURSIVE TapeOfWalk(_, _)
TapeOfWalk(W_, k) ==
  IF k = 0 THEN [ok |-> TRUE, R |-> <<>>]
  ELSE LET r == TapeOfWalk(W_, k - 1)
           u == W_[k][1]
       IN IF ~r.ok \/ tier(u) # 0 THEN r
          ELSE [ok |-> CellSetOk(r.R, index(u)),
                R |-> SurfaceSet(r.R, index(u), symbol(u))]

FGIdle ==
  /\ G = NoGraph /\ Ef = {} /\ C = {} /\ H = NoGraph /\ T = <<>> /\ EfRem = {}
  /\ fgRet = "done" /\ fgResult = NoGraph /\ fgLast = NoLast

\* ---------------------------------------------------- simulation runs
MaxTape == 2
MaxCert == 1
MaxSteps == 24

SimMachines == {1, 2, 3, 4}
Tapes == UNION {[1..n -> Gamma \ {Blank}] : n \in 1..MaxTape}
Certificates == [1..simM -> CertSymbols]

\* The deterministic single-tape run of the installed machine.
TapeCells == (0 - MaxSteps)..(MaxTape + MaxCert + 1 + MaxSteps)
InitialTape(L_) == [i \in TapeCells |-> IF i >= 0 /\ i < Len(L_) THEN L_[i + 1] ELSE Blank]

StepConfig(c) ==
  LET d == delta(c.state, c.tape[c.index])
  IN [state |-> d[1], index |-> c.index + d[3],
      tape |-> [c.tape EXCEPT ![c.index] = d[2]]]

\* The configuration after n steps, or the halting one if reached before.
RECURSIVE RunFrom(_, _)
RunFrom(c, n) ==
  IF n = 0 \/ c.state \in Halting THEN c
  ELSE CHOOSE r \in {RunFrom(x, n - 1) : x \in {StepConfig(c)}} : TRUE

DirectRun(L_, n) ==
  RunFrom([state |-> "q0", index |-> 0, tape |-> InitialTape(L_)], n)
Outcome(L_) == DirectRun(L_, MaxSteps).state

InitSim ==
  /\ DcgIdle
  /\ tm \in SimMachines
  /\ simL \in Tapes
  /\ simM \in 0..MaxCert
  /\ \A w \in Certificates : Outcome(simL \o w) \in Halting
  /\ pc = "sim_extend"
  /\ G0 = EmptyGraph
  /\ V0 = {FloorVertex(0, "q0", simL[1])}
  /\ simQ = GetFloorNextEdges(FloorVertex(0, "q0", simL[1]))
  /\ simEv = {} /\ GV = {}
  /\ xe = NoEdge /\ xS = <<>> /\ xR = <<>> /\ xT = <<>> /\ walkLength = 0
  /\ accepted = FALSE /\ yesWitness = <<>> /\ answer = "none"
  /\ simCand = NoCand
  /\ fgModule = "main" /\ mainAnswer = "none" /\ procRun = NoRuns
  /\ FGIdle /\ VWIdle

\* ExtendByVerifiableEdges: ef = Q.popleft(); an edge H has is passed over,
\* any other is put into H and handed to VerifyExistenceOfWalk.
SimPick ==
  /\ pc = "sim_extend" /\ simQ # {}
  /\ \E e \in simQ :
       /\ simQ' = simQ \ {e}
       /\ IF hasEdge(G0, e)
          THEN UNCHANGED <<G0, ef, vwRet, pc, simCand>>
          ELSE /\ G0' = addEdge(G0, e)
               /\ simCand' = [ef |-> e, before |-> G0, result |-> "verifying"]
               /\ ef' = e
               /\ vwRet' = "sim_vw"
               /\ pc' = "vw_start"
  /\ UNCHANGED <<dcgVars, tm, V0, fgVars, Gw, Gc, shared, R, W, we, S, seen, prune,
                 vwResult, hist, simL, simM, fgModule, mainAnswer, procRun, GV, simEv, xe, xS, xR, xT,
                 walkLength, accepted, yesWitness, answer>>

\* Back from VerifyExistenceOfWalk: ef is taken out of H again; with a walk
\* W, ExtendEdgeDirectlyWithWalk starts from the first edge of W that is not
\* in H.  The locals of the finished calls are dropped.
SimVerified ==
  /\ pc = "sim_vw"
  /\ LET H1 == removeEdge(G0, ef)
         Wk == vwResult.W
         k == FirstNewEdge(H1, Wk)
         tape == TapeOfWalk(Wk, k)
         S0 == SurfaceOfWalk(Wk, IF AllInGraph(H1, Wk) THEN k ELSE k - 1)
     IN /\ G0' = H1
        /\ simCand' = [simCand EXCEPT !.result = IF vwResult.kind = "walk" THEN "confirmed"
                                           ELSE "discarded"]
        /\ IF vwResult.kind # "walk"
           THEN pc' = "sim_extend" /\ xT' = <<>>
           ELSE IF ~tape.ok
           THEN pc' = "assert_failed" /\ xT' = <<>>
           ELSE /\ pc' = "x_pop"
                /\ xT' = <<{[e |-> Wk[k], S |-> S0, R |-> tape.R]}>>
  /\ G' = NoGraph /\ Ef' = {} /\ C' = {} /\ H' = NoGraph /\ T' = <<>>
  /\ EfRem' = {} /\ fgRet' = "done" /\ fgResult' = NoGraph /\ fgLast' = NoLast
  /\ ef' = NoEdge /\ Gw' = NoGraph /\ Gc' = NoGraph /\ shared' = FALSE
  /\ R' = {} /\ W' = <<>> /\ we' = NoEdge /\ S' = <<>> /\ seen' = {}
  /\ prune' = NoPrune /\ vwRet' = "done" /\ vwResult' = NoResult
  /\ hist' = NoHist
  /\ UNCHANGED <<dcgVars, tm, V0, simL, simM, fgModule, mainAnswer, procRun, GV, simQ, simEv, xe, xS, xR, walkLength,
                 accepted, yesWitness, answer>>

\* e, S, R = T.pop(): an edge H has by now is passed over; an empty stack
\* ends ExtendEdgeDirectlyWithWalk with None.
XPop ==
  /\ pc = "x_pop"
  /\ IF xT = <<>>
     THEN /\ pc' = "sim_extend"
          /\ UNCHANGED <<xT, xe, xS, xR, walkLength>>
     ELSE \E x \in Top(xT) :
            /\ xT' = PopFrom(xT, x)
            /\ IF hasEdge(G0, x.e)
               THEN UNCHANGED <<pc, xe, xS, xR, walkLength>>
               ELSE /\ xe' = x.e /\ xS' = x.S /\ xR' = x.R
                    /\ walkLength' = 0
                    /\ pc' = "x_walk"
  /\ UNCHANGED <<dcgVars, tm, G0, V0, fgVars, vwVars, simCand, simL, simM, fgModule, mainAnswer, procRun, GV, simQ, simEv,
                 accepted, yesWitness, answer>>

\* One iteration of the inner loop of ExtendEdgeDirectlyWithWalk: e goes
\* into H, S and R are updated, a new merging edge adds the extendable
\* pairs of the surface to Ev; a halting vertex ends the walk (Accept
\* returns R up to IsAcceptedOnFootmarks, which keeps it as yesWitness),
\* any other continues above ep, the last edge over the slice it crosses
\* next, and leaves the other next edges that are not in H on the stack.
XStep ==
  /\ pc = "x_walk"
  /\ LET u == xe[1]
         v == xe[2]
         isNewEdge == ~hasEdge(G0, xe)
         H1 == addEdge(G0, xe)
         S1 == SurfaceSet(xS, indexE(xe), xe)
         tapeOk == tier(v) # 0 \/ CellSetOk(xR, index(v))
         R1 == IF tier(v) = 0 THEN SurfaceSet(xR, index(v), symbol(v)) ELSE xR
         Ev1 == IF isNewEdge /\ isMergingEdge(H1, xe)
                THEN simEv \cup AddExtendableEdgeOnCeilingEdges(H1, S1)
                ELSE simEv
         sl == IF index(v) < next_index(v) THEN index(v) ELSE next_index(v)
         ep == IF sl \in DOMAIN S1 THEN S1[sl] ELSE NoEdge
         Ev2 == IF /\ isNewEdge /\ ep # NoEdge /\ next_index(v) # index(u)
                   /\ IsCeilingEdge(H1, ep)
                THEN Ev1 \cup {<<NoEdge, xe>>}
                ELSE Ev1
         En == GetNextEdgesAbovePreds(v, {ep})
     IN /\ G0' = H1
        /\ walkLength' = walkLength + 1
        /\ IF ~tapeOk
           THEN /\ pc' = "assert_failed"
                /\ UNCHANGED <<xe, xS, xR, xT, simEv, GV, accepted, yesWitness>>
           ELSE IF state(v) \in Halting
           THEN /\ xS' = S1 /\ xR' = R1 /\ simEv' = Ev1
                /\ accepted' = (state(v) = "Accept")
                /\ yesWitness' = IF state(v) = "Accept" THEN Strip(Joined(R1))
                                 ELSE yesWitness
                /\ pc' = IF state(v) = "Accept" THEN "sim_ret" ELSE "x_pop"
                /\ UNCHANGED <<xe, xT, GV>>
           ELSE IF ~AbovePredsOk(v, {ep})
           THEN /\ pc' = "assert_failed"
                /\ xS' = S1 /\ xR' = R1 /\ simEv' = Ev2
                /\ UNCHANGED <<xe, xT, GV, accepted, yesWitness>>
           ELSE /\ xS' = S1 /\ xR' = R1 /\ simEv' = Ev2
                /\ GV' = GV \cup {f[2] : f \in {x \in En : tier(x[2]) > 0}}
                /\ \E f \in En :
                     /\ xe' = f
                     /\ xT' = Push(xT, {[e |-> g, S |-> S1, R |-> R1] :
                                          g \in {x \in En \ {f} : ~hasEdge(H1, x)}})
                /\ pc' = "x_walk"
                /\ UNCHANGED <<accepted, yesWitness>>
  /\ UNCHANGED <<dcgVars, tm, V0, fgVars, vwVars, simCand, simL, simM, fgModule, mainAnswer, procRun, simQ, answer>>

NoFeasibleEdgeExtended_always(Ev) == TRUE

\* elif len(Ev)==0: no feasible edge extended in this round
NoFeasibleEdgeExtended(Ev) == Ev = {}

\* ExtendByVerifiableEdges has gone through Q without an accepting walk:
\* IsAcceptedOnFootmarks answers False when nothing was found to extend,
\* and otherwise goes on with the boundary edges collected for Ev.
SimRound ==
  /\ pc = "sim_extend" /\ simQ = {}
  /\ IF NoFeasibleEdgeExtended(simEv)
     THEN /\ pc' = "sim_ret"
          /\ UNCHANGED <<simQ, simEv, GV>>
     ELSE IF \E p \in BoundaryPairs(simEv) :
                ~AbovePredsOk(p[2][2], BoundaryPreds(G0, p))
     THEN /\ pc' = "assert_failed"
          /\ UNCHANGED <<simQ, simEv, GV>>
     ELSE /\ simQ' = CollectRestrictedBoundaryEdges(G0, simEv)
          /\ simEv' = {}
          /\ GV' = GV \cup {f[2] : f \in {x \in BoundaryNext(G0, simEv) : tier(x[2]) > 0}}
          /\ pc' = IF CollectRestrictedBoundaryEdges(G0, simEv) = {}
                   THEN "sim_ret" ELSE "sim_extend"
  /\ UNCHANGED <<dcgVars, tm, G0, V0, fgVars, vwVars, simCand, simL, simM, fgModule, mainAnswer, procRun, xe, xS, xR, xT,
                 walkLength, accepted, yesWitness, answer>>

\* SimulateVerifierForAllCertificates after IsAcceptedOnFootmarks: with a
\* certificate bound the accepted witness is printed from its separator on,
\* which raises IndexError for a witness without one.
SimReturn ==
  /\ pc = "sim_ret"
  /\ answer' = IF accepted /\ simM > 0 /\ ~InWalk(Separator, yesWitness)
               THEN "IndexError"
               ELSE IF accepted THEN "Yes" ELSE "No"
  /\ pc' = "done"
  /\ UNCHANGED <<dcgVars, tm, G0, V0, fgVars, vwVars, simCand, simL, simM, fgModule, mainAnswer, procRun, GV, simQ, simEv,
                 xe, xS, xR, xT, walkLength, accepted, yesWitness>>

NextSim ==
  \/ SimPick \/ SimVerified \/ XPop \/ XStep \/ SimRound \/ SimReturn
  \/ VWStart \/ VWLoop \/ FFLoop \/ WalkStep \/ FFWalked \/ AddFinalStep
  \/ PruneReturn \/ FGStart \/ FGSkip \/ FGRemove \/ FGReturn

SpecSim == InitSim /\ [][NextSim]_vars

\* The hybrid run: the input that main's package has answered is given to
\* the package with original's feasibleGraph.py in it.
HybridRerun ==
  /\ pc = "done" /\ fgModule = "main"
  /\ fgModule' = "original" /\ mainAnswer' = answer
  /\ pc' = "sim_extend"
  /\ G0' = EmptyGraph
  /\ simQ' = GetFloorNextEdges(FloorVertex(0, "q0", simL[1]))
  /\ simEv' = {} /\ GV' = {}
  /\ xe' = NoEdge /\ xS' = <<>> /\ xR' = <<>> /\ xT' = <<>> /\ walkLength' = 0
  /\ accepted' = FALSE /\ yesWitness' = <<>> /\ answer' = "none"
  /\ simCand' = NoCand
  /\ G' = NoGraph /\ Ef' = {} /\ C' = {} /\ H' = NoGraph /\ T' = <<>> /\ EfRem' = {}
  /\ fgRet' = "done" /\ fgResult' = NoGraph /\ fgLast' = NoLast
  /\ ef' = NoEdge /\ Gw' = NoGraph /\ Gc' = NoGraph /\ shared' = FALSE
  /\ R' = {} /\ W' = <<>> /\ we' = NoEdge /\ S' = <<>> /\ seen' = {}
  /\ prune' = NoPrune /\ vwRet' = "done" /\ vwResult' = NoResult /\ hist' = NoHist
  /\ UNCHANGED <<dcgVars, tm, V0, simL, simM, procRun>>

NextHybrid == NextSim \/ FGOriginal \/ HybridRerun

SpecHybrid == InitSim /\ [][NextHybrid]_vars

\* Several runs in one process: the first input is run, then another one,
\* then the first again.
MaxRuns == 3
OtherInputs == {1, 2} \X [1..1 -> {"a"}] \X {0}

\* An initialize under which the lower-numbered machine survives.
initialize_keepsLower(installed, given) ==
  IF installed < given THEN installed ELSE given

\* dcg.initialize(states, symbols, delta), called by the constructor of
\* NPDynamicComputationGraph: TransitionCase.delta becomes the delta
\* given, whatever was installed.
initialize(installed, given) == given

\* SimulateVerifierForAllCertificates is called again after a run has
\* returned or raised IndexError: G and H are new graphs with new
\* registries, and the constructor of G installs the machine of the call.
NextRun ==
  /\ pc = "done" /\ procRun.n < MaxRuns - 1
  /\ \E inp \in (IF procRun.n = 0 THEN OtherInputs
                  ELSE {<<procRun.delta, procRun.L, procRun.m>>}) :
       /\ tm' = initialize(tm, inp[1])
       /\ simL' = inp[2] /\ simM' = inp[3]
  /\ (\A w \in Certificates : Outcome(simL \o w) \in Halting)'
  /\ procRun' = IF procRun.n = 0
                THEN [procRun EXCEPT !.n = 1, !.delta = tm, !.L = simL, !.m = simM,
                                     !.answer = answer]
                ELSE [procRun EXCEPT !.n = @ + 1,
                                     !.between = [delta |-> tm, answer |-> answer]]
  /\ pc' = "sim_extend"
  /\ G0' = EmptyGraph
  /\ V0' = {FloorVertex(0, "q0", simL'[1])}
  /\ simQ' = GetFloorNextEdges(FloorVertex(0, "q0", simL[1]))'
  /\ simEv' = {} /\ GV' = {}
  /\ xe' = NoEdge /\ xS' = <<>> /\ xR' = <<>> /\ xT' = <<>> /\ walkLength' = 0
  /\ accepted' = FALSE /\ yesWitness' = <<>> /\ answer' = "none"
  /\ simCand' = NoCand
  /\ G' = NoGraph /\ Ef' = {} /\ C' = {} /\ H' = NoGraph /\ T' = <<>> /\ EfRem' = {}
  /\ fgRet' = "done" /\ fgResult' = NoGraph /\ fgLast' = NoLast
  /\ ef' = NoEdge /\ Gw' = NoGraph /\ Gc' = NoGraph /\ shared' = FALSE
  /\ R' = {} /\ W' = <<>> /\ we' = NoEdge /\ S' = <<>> /\ seen' = {}
  /\ prune' = NoPrune /\ vwRet' = "done" /\ vwResult' = NoResult /\ hist' = NoHist
  /\ UNCHANGED <<dcgVars, fgModule, mainAnswer>>

NextRuns == NextSim \/ NextRun
SpecRuns == InitSim /\ [][NextRuns]_vars

\* ------------------------------------- DynamicComputationGraph as stored
\* The stored form of a graph: E is a CellArray of EdgeSlice objects, each
\* slice a dict (kept in insertion order) of EdgeListOf objects with four
\* lists of neighbours, V a CellArray holding the registered vertices of
\* each cell, and the edge counters are kept by hand.  Reading a CellArray
\* or a slice at a place that is not there yet creates the place.
MaxOps == 4

DVertices ==
  {FloorVertex(-1, "q0", "a"), FloorVertex(0, "q0", "a"),
   <<0, 1, "q0", "a", "q0", "a">>, FloorVertex(1, "q0", "a")}
DEdges == {p \in DVertices \X DVertices : dirE(p) = 1 \/ dirE(p) = -1}

EdgeListOf(v) ==
  [at |-> v, left_incoming |-> <<>>, left_outgoing |-> <<>>,
   right_incoming |-> <<>>, right_outgoing |-> <<>>]

EdgeSlice(i) == [index |-> i, edges |-> <<>>, edgeCount |-> 0]

TierArray(i) == {}

\* CellArray.newItem for the kinds of array a graph has
newItem(kind, i) == IF kind = "EDGESLICE" THEN EdgeSlice(i) ELSE TierArray(i)

\* A read that creates the item asked for and nothing between it and the
\* items already there.
CellArray_getitem_onlyAsked(arr, i, kind) ==
  LET top == arr.base + Len(arr.items)
  IN IF arr.base <= i /\ i < top THEN arr
     ELSE IF i >= top THEN [arr EXCEPT !.items = Append(@, newItem(kind, i))]
     ELSE [base |-> arr.base - 1, items |-> <<newItem(kind, i)>> \o arr.items]

\* CellArray.__getitem__: an index outside [base, base+len) extends the
\* list with new items up to that index, at the end or at the front.
CellArray_getitem(arr, i, kind) ==
  LET top == arr.base + Len(arr.items)
  IN IF arr.base <= i /\ i < top THEN arr
     ELSE IF i >= top
     THEN [arr EXCEPT !.items = @ \o [k \in 1..(i - top + 1) |-> newItem(kind, top + k - 1)]]
     ELSE [base |-> i,
           items |-> [k \in 1..(arr.base - i) |-> newItem(kind, i + k - 1)] \o arr.items]

isDefined(arr, i) == arr.base <= i /\ i < arr.base + Len(arr.items)
Item(arr, i) == arr.items[i - arr.base + 1]
SetItem(arr, i, x) == [arr EXCEPT !.items[i - arr.base + 1] = x]

\* EdgeSlice.__getitem__: the EdgeListOf of a vertex, created when missing.
HasList(sl, v) == \E k \in 1..Len(sl.edges) : sl.edges[k].at = v
Pos(sl, v) == CHOOSE k \in 1..Len(sl.edges) : sl.edges[k].at = v
EdgeSlice_getitem(sl, v) ==
  IF HasList(sl, v) THEN sl ELSE [sl EXCEPT !.edges = Append(@, EdgeListOf(v))]

\* self.E[i][v]: the graph after the read, and the list read.
Touch(o, i, v) ==
  LET arr == CellArray_getitem(o.E, i, "EDGESLICE")
  IN [o EXCEPT !.E = SetItem(arr, i, EdgeSlice_getitem(Item(arr, i), v))]
ListOf(o, i, v) == LET sl == Item(o.E, i) IN sl.edges[Pos(sl, v)]

InList(x, s) == \E k \in 1..Len(s) : s[k] = x
\* list.remove(x): the first occurrence goes
ListRemove(s, x) ==
  LET k == CHOOSE j \in 1..Len(s) : s[j] = x /\ \A l \in 1..(j - 1) : s[l] # x
  IN SubSeq(s, 1, k - 1) \o SubSeq(s, k + 1, Len(s))

ListAppend(o, i, v, fld, x) ==
  LET o1 == Touch(o, i, v)
      sl == Item(o1.E, i)
  IN [o1 EXCEPT !.E = SetItem(o1.E, i, [sl EXCEPT !.edges[Pos(sl, v)][fld] = Append(@, x)])]

ListDrop(o, i, v, fld, x) ==
  LET o1 == Touch(o, i, v)
      sl == Item(o1.E, i)
  IN [o1 EXCEPT !.E = SetItem(o1.E, i, [sl EXCEPT !.edges[Pos(sl, v)][fld] = ListRemove(@, x)])]

SliceCount_totalOnly(o, i, d) == [o EXCEPT !.edgeCount = @ + d]
SliceCount(o, i, d) ==
  [o EXCEPT !.E = SetItem(o.E, i, [Item(o.E, i) EXCEPT !.edgeCount = @ + d]),
            !.edgeCount = @ + d]

\* DynamicComputationGraph.hasEdge: <<the graph after the reads, answer>>
DCG_hasEdge_never(o, ed) == <<Touch(o, indexE(ed), ed[1]), FALSE>>
DCG_hasEdge(o, ed) ==
  LET i == indexE(ed)
      o1 == Touch(o, i, ed[1])
      o2 == Touch(o1, i, ed[2])
  IN IF InList(ed[2], ListOf(o1, i, ed[1]).right_outgoing) THEN <<o1, TRUE>>
     ELSE <<o2, InList(ed[1], ListOf(o2, i, ed[2]).right_incoming)>>

DCG_addVertex_none(reg, v) == reg

\* DynamicComputationGraph.addVertex on the registry of the graph
DCG_addVertex(reg, v) ==
  LET arr == CellArray_getitem(reg, index(v), "TIERARRAY")
  IN SetItem(arr, index(v), Item(arr, index(v)) \cup {v})

\* DynamicComputationGraph.addEdge: <<the graph, its registry>> afterwards
DCG_addEdge(o, reg, ed) ==
  LET u == ed[1]
      v == ed[2]
      i == indexE(ed)
      h == DCG_hasEdge([o EXCEPT !.E = CellArray_getitem(@, i, "EDGESLICE")], ed)
      o1 == IF index(u) < index(v)
            THEN ListAppend(ListAppend(h[1], i, u, "right_outgoing", v),
                            i, v, "left_incoming", u)
            ELSE ListAppend(ListAppend(h[1], i, u, "left_outgoing", v),
                            i, v, "right_incoming", u)
  IN IF h[2] THEN <<h[1], reg>>
     ELSE <<SliceCount(o1, i, 1), DCG_addVertex(DCG_addVertex(reg, u), v)>>

\* The assertion of EdgeSlice.__getitem__: the slice i holds lists only
\* of vertices of the cells i and i + 1.
EdgeSlice_getitem_asserts_never(i, v) == FALSE

EdgeSlice_getitem_asserts(i, v) == i \notin {index(v), index(v) - 1}

\* addEdge ends in an AssertionError: its own two assertions, or the one
\* of the slice when hasEdge reads the list of u and then, the edge not
\* being found there, the list of v.
DCG_addEdge_asserts(o, ed) ==
  LET i == indexE(ed)
      o0 == [o EXCEPT !.E = CellArray_getitem(@, i, "EDGESLICE")]
  IN \/ Item(o0.E, i).index # i
     \/ index(ed[1]) = index(ed[2])
     \/ EdgeSlice_getitem_asserts(i, ed[1])
     \/ /\ ~InList(ed[2], ListOf(Touch(o0, i, ed[1]), i, ed[1]).right_outgoing)
        /\ EdgeSlice_getitem_asserts(i, ed[2])

\* the graph such a call leaves: the slice and the list of u it has read
DCG_addEdge_failed(o, ed) ==
  LET i == indexE(ed)
      o0 == [o EXCEPT !.E = CellArray_getitem(@, i, "EDGESLICE")]
  IN IF index(ed[1]) = index(ed[2]) \/ EdgeSlice_getitem_asserts(i, ed[1])
     THEN o0
     ELSE Touch(o0, i, ed[1])

DCG_removeEdge_oneList(o, ed) ==
  LET h == DCG_hasEdge(o, ed)
  IN IF ~h[2] THEN h[1]
     ELSE SliceCount(ListDrop(h[1], indexE(ed), ed[1],
                              IF dirE(ed) > 0 THEN "right_outgoing" ELSE "left_outgoing",
                              ed[2]),
                     indexE(ed), -1)

\* DynamicComputationGraph.removeEdge
DCG_removeEdge(o, ed) ==
  LET u == ed[1]
      v == ed[2]
      i == indexE(ed)
      h == DCG_hasEdge(o, ed)
      o1 == IF index(u) < index(v)
            THEN ListDrop(ListDrop(h[1], i, u, "right_outgoing", v),
                          i, v, "left_incoming", u)
            ELSE ListDrop(ListDrop(h[1], i, u, "left_outgoing", v),
                          i, v, "right_incoming", u)
  IN IF ~h[2] THEN h[1] ELSE SliceCount(o1, i, -1)

\* EdgeSlice.getAllEdges: the edges of the vertices of the slice's own cell,
\* list by list in dict order.
RECURSIVE AllEdgesFrom(_, _)
AllEdgesFrom(sl, k) ==
  IF k > Len(sl.edges) THEN <<>>
  ELSE LET el == sl.edges[k]
           own == IF sl.index = index(el.at)
                  THEN [j \in 1..Len(el.right_incoming) |-> <<el.right_incoming[j], el.at>>]
                       \o [j \in 1..Len(el.right_outgoing) |-> <<el.at, el.right_outgoing[j]>>]
                  ELSE <<>>
       IN own \o AllEdgesFrom(sl, k + 1)

EdgeSlice_getAllEdges(sl) == AllEdgesFrom(sl, 1)

NewGraph(rid) == [V |-> rid, E |-> [base |-> 0, items |-> <<>>], edgeCount |-> 0]
NewRegistry == [base |-> 0, items |-> <<>>]

\* minEdgeIndex / maxEdgeIndex: from the ends of V inwards to the first
\* slice that holds an edge; the reads of E create the slices they touch.
EdgeEnds(o, reg) ==
  LET E1 == CellArray_getitem(o.E, reg.base, "EDGESLICE")
      E2 == CellArray_getitem(E1, reg.base + Len(reg.items) - 1, "EDGESLICE")
      used == {i \in reg.base..(reg.base + Len(reg.items) - 1) : Item(E2, i).edgeCount > 0}
  IN [E |-> E2,
      m |-> CHOOSE i \in used : \A j \in used : i <= j,
      M |-> CHOOSE i \in used : \A j \in used : j <= i]

RECURSIVE AddAll(_, _, _)
AddAll(pair, es, k) ==
  IF k > Len(es) THEN pair
  ELSE AddAll(DCG_addEdge(pair[1], pair[2], es[k]), es, k + 1)

SliceEdges_first(arr, i, M) == EdgeSlice_getAllEdges(Item(arr, i))

RECURSIVE SliceEdges(_, _, _)
SliceEdges(arr, i, M) ==
  IF i > M THEN <<>>
  ELSE EdgeSlice_getAllEdges(Item(arr, i)) \o SliceEdges(arr, i + 1, M)

\* DynamicComputationGraph.getCopyedGraph: an empty graph gives a new graph
\* with a registry of its own (rid); otherwise the copy takes the registry
\* of the graph and every edge is added to it, slice by slice (the right
\* lists of a vertex of the next cell are empty, so the loop adds what
\* getAllEdges lists).
getCopyedGraph(o, reg, rid) ==
  IF o.edgeCount = 0
  THEN [self |-> o, copy |-> NewGraph(rid), reg |-> reg, fresh |-> TRUE]
  ELSE LET ends == EdgeEnds(o, reg)
           r == AddAll(<<NewGraph(o.V), reg>>, SliceEdges(ends.E, ends.m, ends.M), 1)
       IN [self |-> [o EXCEPT !.E = ends.E], copy |-> r[1], reg |-> r[2], fresh |-> FALSE]

\* What a caller can observe of a stored graph: size(), the edge count of
\* every slice and the four lists of every vertex in every slice (a slice
\* or a list that was never created reads as empty).
DSlices == -2..2
ListsAt(o, i, v) ==
  IF isDefined(o.E, i) /\ HasList(Item(o.E, i), v)
  THEN LET el == ListOf(o, i, v)
       IN <<el.left_incoming, el.left_outgoing, el.right_incoming, el.right_outgoing>>
  ELSE <<<<>>, <<>>, <<>>, <<>>>>
CountAt(o, i) == IF isDefined(o.E, i) THEN Item(o.E, i).edgeCount ELSE 0
StoredEdges(o) ==
  UNION {{EdgeSlice_getAllEdges(Item(o.E, i))[k] :
            k \in 1..Len(EdgeSlice_getAllEdges(Item(o.E, i)))} :
         i \in {j \in DSlices : isDefined(o.E, j)}}
View(o) ==
  [size |-> o.edgeCount,
   edges |-> StoredEdges(o),
   counts |-> [i \in DSlices |-> CountAt(o, i)],
   lists |-> [p \in DSlices \X DVertices |-> ListsAt(o, p[1], p[2])]]

InitDCG ==
  /\ VWIdle /\ SimIdle /\ FGIdle
  /\ tm = 1 /\ pc = "dcg" /\ G0 = EmptyGraph /\ V0 = {}
  /\ dcg = [g \in {1} |-> NewGraph(g)]
  /\ dcgV = [r \in 1..2 |-> NewRegistry]
  /\ dcgLast = [n |-> 0, kind |-> "init", g |-> 0, e |-> NoEdge, had |-> FALSE,
                before |-> NoOp, other |-> NoOp,
                pkind |-> "init", pg |-> 0, pe |-> NoEdge, phad |-> FALSE, pbefore |-> NoOp]
  /\ caseCall = NoCall /\ cells = NewCellArray /\ cellRead = NoRead

Done(kind, g, ed, had) ==
  [n |-> dcgLast.n + 1, kind |-> kind, g |-> g, e |-> ed, had |-> had,
   before |-> IF g \in DOMAIN dcg THEN View(dcg[g]) ELSE NoOp,
   other |-> IF 3 - g \in DOMAIN dcg THEN View(dcg[3 - g]) ELSE NoOp,
   pkind |-> dcgLast.kind, pg |-> dcgLast.g, pe |-> dcgLast.e,
   phad |-> dcgLast.had, pbefore |-> dcgLast.before]

\* G.addEdge(e) on one of the graphs, e any pair of vertices; an
\* AssertionError ends the program.
DAddEdge ==
  /\ pc = "dcg" /\ dcgLast.n < MaxOps
  /\ \E g \in DOMAIN dcg, ed \in DVertices \X DVertices :
       IF DCG_addEdge_asserts(dcg[g], ed)
       THEN /\ dcg' = [dcg EXCEPT ![g] = DCG_addEdge_failed(dcg[g], ed)]
            /\ dcgLast' = Done("add", g, ed, FALSE)
            /\ pc' = "assert_failed"
            /\ UNCHANGED dcgV
       ELSE LET r == DCG_addEdge(dcg[g], dcgV[dcg[g].V], ed)
            IN /\ dcg' = [dcg EXCEPT ![g] = r[1]]
               /\ dcgV' = [dcgV EXCEPT ![dcg[g].V] = r[2]]
               /\ dcgLast' = Done("add", g, ed, DCG_hasEdge(dcg[g], ed)[2])
               /\ pc' = pc
  /\ UNCHANGED <<simVars, vwVars, fgVars, tm, G0, V0, caseCall, cells, cellRead>>

\* G.removeEdge(e) on one of the graphs
DRemoveEdge ==
  /\ pc = "dcg" /\ dcgLast.n < MaxOps
  /\ \E g \in DOMAIN dcg, ed \in DEdges :
       /\ dcg' = [dcg EXCEPT ![g] = DCG_removeEdge(dcg[g], ed)]
       /\ dcgLast' = Done("remove", g, ed, DCG_hasEdge(dcg[g], ed)[2])
  /\ UNCHANGED <<simVars, vwVars, fgVars, tm, pc, G0, V0, dcgV, caseCall, cells, cellRead>>

\* A second graph is made, or the second graph is made anew, as
\* G.getCopyedGraph() of the graph g; a registry no graph refers to any
\* more is dropped.
DCopy ==
  /\ pc = "dcg" /\ dcgLast.n < MaxOps
  /\ \E g \in DOMAIN dcg :
       LET c == getCopyedGraph(dcg[g], dcgV[dcg[g].V], 3 - dcg[g].V)
       IN /\ dcg' = [h \in 1..2 |-> IF h = g THEN c.self ELSE c.copy]
          /\ dcgV' = [dcgV EXCEPT ![dcg[g].V] = c.reg, ![3 - dcg[g].V] = NewRegistry]
          /\ dcgLast' = Done("copy", 3 - g, NoEdge, FALSE)
  /\ UNCHANGED <<simVars, vwVars, fgVars, tm, pc, G0, V0, caseCall, cells, cellRead>>

NextDCG == DAddEdge \/ DRemoveEdge \/ DCopy

SpecDCG == InitDCG /\ [][NextDCG]_vars

\* ------------------------------------------------------ graph queries
\* The queries of a stored graph.  None of them writes a list or a counter,
\* but each read self.E[i][v] creates the slice i and the list of v when
\* they are missing, and each read self.V[i] creates the cell i of the
\* registry.
Queries ==
  {"hasEdge", "incomingEdgeOf", "outgoingEdgeOf", "isFoldingNode",
   "isMergingEdge", "isSplittingEdge", "IPrecedent", "ISuccedent",
   "CountIPrecedents", "CountISuccedents", "GetIPrecedents", "GetISuccedents"}

ReadV(reg, i) == CellArray_getitem(reg, i, "TIERARRAY")
Members(reg, i) == IF isDefined(reg, i) THEN Item(reg, i) ELSE {}

\* self.V[i][t][q][s] as IPrecedent and ISuccedent find it in the registry
StoredIPrecedent(reg, v) ==
  IF tier(v) = 0 THEN {}
  ELSE IF tier(v) = 1 THEN {FloorVertex(index(v), last_state(v), last_symbol(v))}
  ELSE {w \in Members(reg, index(v)) : transitionCase(w) = IPrecedentCase(v)}

StoredISuccedent(reg, v) ==
  {w \in Members(reg, index(v)) :
     /\ tier(w) = tier(v) + 1 /\ symbol(w) = output(v)
     /\ last_state(w) = state(v) /\ last_symbol(w) = symbol(v)}

\* Es[p] for every p of a transition case (the cases of the vertices drawn
\* here have at most one member, so the order of the reads is fixed)
RECURSIVE TouchEach(_, _, _)
TouchEach(o, i, Vs) ==
  IF Vs = {} THEN o
  ELSE LET w == CHOOSE x \in Vs : TRUE
       IN TouchEach(Touch(o, i, w), i, Vs \ {w})

\* incomingEdgeOf(v) / outgoingEdgeOf(v): self.E[i][v], then self.E[i-1][v]
TouchAround(o, v) == Touch(Touch(o, index(v), v), index(v) - 1, v)

RECURSIVE TouchAroundEach(_, _)
TouchAroundEach(o, Vs) ==
  IF Vs = {} THEN o
  ELSE LET w == CHOOSE x \in Vs : TRUE
       IN TouchAroundEach(TouchAround(o, w), Vs \ {w})

\* A query that keeps its own books: it counts the list it creates as an
\* edge of the slice.
DCG_query_counting(o, reg, q, ed) ==
  LET o1 == TouchAround(o, ed[2])
  IN [g |-> IF o1 = o THEN o ELSE SliceCount(o1, index(ed[2]), 1),
      reg |-> reg, asserts |-> FALSE]

\* The graph and the registry after the query q, asked about the edge ed
\* or (the queries of one vertex) about its target, and whether the query
\* ends in an AssertionError.
DCG_query(o, reg, q, ed) ==
  LET u == ed[1]
      v == ed[2]
      i == indexE(ed)
      h == DCG_hasEdge(o, ed)
      same == [g |-> o, reg |-> reg, asserts |-> FALSE]
  IN CASE q = "hasEdge" -> [same EXCEPT !.g = h[1]]
       [] q \in {"incomingEdgeOf", "outgoingEdgeOf"} ->
            [same EXCEPT !.g = TouchAround(o, v)]
       [] q = "isFoldingNode" ->
            LET o1 == Touch(o, index(v) - 1, v)
                el == ListOf(o1, index(v) - 1, v)
            IN [same EXCEPT !.g = IF el.left_incoming # <<>> /\ el.left_outgoing # <<>>
                                  THEN o1 ELSE Touch(o1, index(v), v)]
       [] q = "isMergingEdge" ->
            IF h[2] THEN [same EXCEPT !.g = Touch(h[1], i, v)]
            ELSE [same EXCEPT !.g = h[1], !.asserts = TRUE]
       [] q = "isSplittingEdge" ->
            IF h[2] THEN [same EXCEPT !.g = Touch(h[1], i, u)]
            ELSE [same EXCEPT !.g = h[1], !.asserts = TRUE]
       [] q = "IPrecedent" ->
            [same EXCEPT !.reg = IF tier(v) = 0 THEN reg ELSE ReadV(reg, index(v))]
       [] q = "ISuccedent" -> [same EXCEPT !.reg = ReadV(reg, index(v))]
       [] q = "CountIPrecedents" ->
            LET r1 == IF tier(v) = 0 THEN reg ELSE ReadV(reg, index(v))
                o1 == [o EXCEPT !.E = CellArray_getitem(@, i, "EDGESLICE")]
            IN [same EXCEPT !.g = TouchEach(o1, i, StoredIPrecedent(r1, v)), !.reg = r1]
       [] q = "CountISuccedents" ->
            LET r1 == ReadV(reg, index(u))
                o1 == [o EXCEPT !.E = CellArray_getitem(@, i, "EDGESLICE")]
            IN [same EXCEPT !.g = TouchEach(o1, i, StoredISuccedent(r1, u)), !.reg = r1]
       [] q = "GetIPrecedents" ->
            IF tier(v) = 0 THEN same
            ELSE LET r1 == ReadV(reg, index(v))
                     Ps == StoredIPrecedent(r1, v)
                     found == \E f \in StoredEdges(o) : f[1] \in Ps
                 IN [same EXCEPT !.g = TouchAroundEach(o, Ps),
                                 !.reg = IF found /\ tier(u) > 0
                                         THEN ReadV(r1, index(u)) ELSE r1]
       [] q = "GetISuccedents" ->
            LET r1 == ReadV(reg, index(u))
                Vs == StoredISuccedent(r1, u)
                found == \E f \in StoredEdges(o) : f[2] \in Vs
            IN [same EXCEPT !.g = TouchAroundEach(o, Vs),
                            !.reg = IF found THEN ReadV(r1, index(v)) ELSE r1]

\* How many operations a run with queries makes.
MaxQueryOps == 3

\* The edges a run with queries adds, removes and asks about: into the
\* lowest cell, into the vertex above the floor, and out of it.
QEdges ==
  {<<FloorVertex(0, "q0", "a"), FloorVertex(-1, "q0", "a")>>,
   <<FloorVertex(-1, "q0", "a"), <<0, 1, "q0", "a", "q0", "a">>>>,
   <<<<0, 1, "q0", "a", "q0", "a">>, FloorVertex(1, "q0", "a")>>}

\* One query on the graph; an AssertionError ends the program.
DQuery ==
  /\ pc = "dcg" /\ dcgLast.n < MaxQueryOps
  /\ \E g \in DOMAIN dcg, q \in Queries, ed \in QEdges :
       LET r == DCG_query(dcg[g], dcgV[dcg[g].V], q, ed)
       IN /\ dcg' = [dcg EXCEPT ![g] = r.g]
          /\ dcgV' = [dcgV EXCEPT ![dcg[g].V] = r.reg]
          /\ dcgLast' = Done(q, g, ed, r.g # dcg[g] \/ r.reg # dcgV[dcg[g].V])
          /\ pc' = IF r.asserts THEN "assert_failed" ELSE pc
  /\ UNCHANGED <<simVars, vwVars, fgVars, tm, G0, V0, caseCall, cells, cellRead>>

\* addEdge and removeEdge between the queries
QAddEdge == dcgLast.n < MaxQueryOps /\ DAddEdge /\ dcgLast'.e \in QEdges
QRemoveEdge == dcgLast.n < MaxQueryOps /\ DRemoveEdge /\ dcgLast'.e \in QEdges

NextQueries == QAddEdge \/ QRemoveEdge \/ DQuery

SpecQueries == InitDCG /\ [][NextQueries]_vars

\* ------------------------------------------------- TransitionCase.vertex
\* The transition cases and predecessors the calls are made with, and how
\* many calls are made.
MaxCalls == 3
NoCase == <<>>
Cases == (0..1) \X (0..2) \X {"q0", "q1"} \X {"a"}

\* TransitionCase.vertex(P) of the case Tc whose members above the floor
\* are the vertices of members: what the call gives and the vertex it
\* adds.  A floor case given a predecessor logs an error and returns None;
\* above the floor a predecessor None has no attribute index, and one of
\* another cell or another tier fails an assertion.
TransitionCase_vertex(members, Tc, P) ==
  IF Tc[2] = 0
  THEN IF P # NoCase
       THEN [kind |-> "None", v |-> <<>>, added |-> {}]
       ELSE [kind |-> "vertex", v |-> FloorVertex(Tc[1], Tc[3], Tc[4]), added |-> {}]
  ELSE IF P = NoCase
  THEN [kind |-> "AttributeError", v |-> <<>>, added |-> {}]
  ELSE IF P[1] # Tc[1] \/ P[2] # Tc[2] - 1
  THEN [kind |-> "AssertionError", v |-> <<>>, added |-> {}]
  ELSE LET w == <<Tc[1], Tc[2], Tc[3], Tc[4], P[3], P[4]>>
       IN [kind |-> "vertex", v |-> w, added |-> {w} \ members]

\* Vertex objects are <<key, serial>>: the serial tells two objects with one
\* key apart.  vertex.__eq__ and __hash__ go by the key alone.
vertex_eq_identity(x, y) == x = y
vertex_eq(x, y) == x[1] = y[1]

\* set.add(v) on a transition case: nothing is added when a member equal
\* to v is there.
Case_add(held, obj) ==
  IF \E x \in held : vertex_eq(x, obj) THEN held ELSE held \cup {obj}

\* TransitionCase.__init__ of a case that is read for the first time: a
\* floor case constructs its vertex and adds it to itself.
Case_init(held, made, Tc) ==
  IF Tc # NoCase /\ Tc[2] = 0
     /\ ~\E x \in held : x[1] = FloorVertex(Tc[1], Tc[3], Tc[4])
  THEN <<held \cup {<<FloorVertex(Tc[1], Tc[3], Tc[4]), made + 1>>}, made + 1>>
  ELSE <<held, made>>

\* The members of a case among the objects held.
CaseMembers(held, Tc) == {x \in held : transitionCase(x[1]) = Tc}

InitCase ==
  /\ DcgIdle /\ VWIdle /\ SimIdle /\ FGIdle
  /\ tm = 1 /\ pc = "case" /\ G0 = EmptyGraph /\ V0 = {}

\* V[i][t][q][s].vertex(P) on the registry; an exception ends the program.
CaseVertex ==
  /\ pc = "case" /\ caseCall.n < MaxCalls
  /\ \E T_ \in Cases, P \in Cases \cup {NoCase} :
       LET r == TransitionCase_vertex({w \in GV : transitionCase(w) = T_}, T_, P)
           c1 == Case_init(caseCall.held, caseCall.made, P)
           c2 == Case_init(c1[1], c1[2], T_)
           above == r.kind = "vertex" /\ T_[2] > 0
           \* the filter compares the bound method x.state with the string
           \* P.state and finds nothing: a vertex is constructed in every call
           obj == IF above THEN <<r.v, c2[2] + 1>>
                  ELSE IF r.kind = "vertex"
                  THEN CHOOSE x \in c2[1] : x[1] = r.v
                  ELSE <<>>
       IN /\ GV' = GV \cup r.added
          /\ caseCall' = [n |-> caseCall.n + 1, T |-> T_, P |-> P, kind |-> r.kind,
                          v |-> r.v, before |-> GV,
                          made |-> IF above THEN c2[2] + 1 ELSE c2[2],
                          got |-> obj,
                          held |-> IF above THEN Case_add(c2[1], obj) ELSE c2[1],
                          heldBefore |-> caseCall.held]
          /\ pc' = IF r.kind = "AssertionError" THEN "assert_failed"
                    ELSE IF r.kind = "AttributeError" THEN "crashed"
                    ELSE pc
  /\ UNCHANGED <<dcg, dcgV, dcgLast, cells, cellRead, tm, G0, V0, fgVars, vwVars, simCand, simL, simM,
                 fgModule, mainAnswer, procRun, simQ, simEv, xe, xS, xR, xT, walkLength,
                 accepted, yesWitness, answer>>

SpecCase == InitCase /\ [][CaseVertex]_vars

\* ------------------------------------------------------------ CellArray
\* A CellArray of EdgeSlice items under reads at any index, and how many
\* reads are made.
MaxReads == 4
CellIndices == -3..3

InitCells ==
  /\ DcgIdle /\ VWIdle /\ SimIdle /\ FGIdle
  /\ tm = 1 /\ pc = "cells" /\ G0 = EmptyGraph /\ V0 = {}

\* x = cells[i]
CellGet ==
  /\ pc = "cells" /\ cellRead.n < MaxReads
  /\ \E i \in CellIndices :
       /\ cells' = CellArray_getitem(cells, i, "EDGESLICE")
       /\ cellRead' = [n |-> cellRead.n + 1, i |-> i, v |-> <<>>, before |-> cells]
  /\ UNCHANGED <<dcg, dcgV, dcgLast, caseCall, tm, pc, G0, V0, fgVars, vwVars, simVars>>

\* x = cells[i][v]: the slice read at i gets the edge lists of v
CellGetList ==
  /\ pc = "cells" /\ cellRead.n < MaxReads
  /\ \E i \in CellIndices, v \in DVertices :
       /\ ~EdgeSlice_getitem_asserts(i, v)
       /\ LET arr == CellArray_getitem(cells, i, "EDGESLICE")
          IN cells' = SetItem(arr, i, EdgeSlice_getitem(Item(arr, i), v))
       /\ cellRead' = [n |-> cellRead.n + 1, i |-> i, v |-> v, before |-> cells]
  /\ UNCHANGED <<dcg, dcgV, dcgLast, caseCall, tm, pc, G0, V0, fgVars, vwVars, simVars>>

NextCells == CellGet \/ CellGetList
SpecCells == InitCells /\ [][NextCells]_vars

\* The stored graphs under any sequence of operations, together with the
\* graphs VerifyExistenceOfWalk and ComputeFeasibleGraph make and return.
InitGraphs == InitDCG \/ InitVW
NextGraphs == NextDCG \/ NextVW
SpecGraphs == InitGraphs /\ [][NextGraphs]_vars

\* ------------------------------------------------ reachability (claims)
RECURSIVE ForwardVisited(_, _, _)
ForwardVisited(g, Ev, Q) ==
  IF Q = {} THEN Ev
  ELSE LET Ev2 == Ev \cup Q
           Q2 == UNION {outgoingEdgeOf(g, e[2]) : e \in Q} \ Ev2
       IN ForwardVisited(g, Ev2, Q2)

\* The edges of g on a directed path that starts at a vertex of V0_.
PathReachable(g, V0_) ==
  ForwardVisited(g, {}, UNION {outgoingEdgeOf(g, v) : v \in V0_})

\* The edges of g on a directed path from V0_ that ends with an edge of Ef_.
OnPathToTarget(g, V0_, Ef_) ==
  PathReachable(g, V0_) \cap BackwardVisited(g, {}, Ef_ \cap g.E)

FGDone == pc = "done" /\ fgRet = "done" /\ fgLast.kind # "none"

\* C4: the graph ComputeFeasibleGraph(G, V0, Ef) returns has no edge that
\* is not an edge of G.
C4_ResultIsSubgraph == FGDone => fgResult.E \subseteq G0.E

C4_Witness ==
  /\ FGDone /\ fgLast.removed > 0
  /\ fgResult.E # {} /\ fgResult.E # G0.E

C6_Original_NoReachableTargetGivesEmpty ==
  (FGDone /\ Ef \cap PathReachable(G0, V0) = {}) => size(fgResult) = 0

\* C7 as claimed: every edge of a non-empty result lies on a directed path
\* of G from a vertex of V0 to an edge of Ef.
C7_Original_OnlyEdgesOnPaths ==
  (FGDone /\ fgResult.E # {}) => fgResult.E \subseteq OnPathToTarget(G0, V0, Ef)

\* C10: every worklist iteration of the removal cascade either skips an
\* edge that is no longer in H, shrinking the worklist by one and leaving H
\* alone, or removes exactly one edge from H; the iterations that remove
\* (the only ones that enqueue work) never outnumber the edges H started with.
CascadeStep ==
  /\ pc = "fg_loop" /\ T # <<>>
  /\ \/ /\ H' = H
        /\ SumSizes(T') = SumSizes(T) - 1
     \/ /\ H'.E \subseteq H.E
        /\ size(H') = size(H) - 1
        /\ fgLast'.removed = fgLast.removed + 1
  /\ fgLast'.removed <= fgLast.h0

C10_CascadeTerminates ==
  [][(pc = "fg_loop" /\ T # <<>>) => CascadeStep]_vars

C10_Witness ==
  /\ pc = "fg_loop" /\ fgLast.kind = "remove"
  /\ fgLast.pushed > 1 /\ fgLast.removed > 1

VWDone == pc = "done" /\ vwRet = "done" /\ vwResult.kind # "running"

\* C8: a walk returned by VerifyExistenceOfWalk(G0, V0, ef) is non-empty,
\* all its edges are edges of G0, each edge ends where the next one starts,
\* the first edge starts at a vertex of V0, and ef is an edge of the walk.
C8_ReturnedWalkIsChainToTarget ==
  (VWDone /\ vwResult.kind = "walk") =>
    LET Wk == vwResult.W
    IN /\ Len(Wk) > 0
       /\ \A i \in 1..Len(Wk) : Wk[i] \in G0.E
       /\ \A i \in 1..(Len(Wk) - 1) : Wk[i][2] = Wk[i + 1][1]
       /\ Wk[1][1] \in V0
       /\ \E i \in 1..Len(Wk) : Wk[i] = ef

C8_Witness ==
  /\ VWDone /\ vwResult.kind = "walk"
  /\ Len(vwResult.W) > 2 /\ hist.pruned > 0

\* C9 as claimed: VerifyExistenceOfWalk terminates on every finite graph
\* (it never gets into a walk it repeats for ever), every further iteration
\* of its outer loop has removed an edge of G and has a smaller feasible
\* graph, and every further iteration of the loop of
\* FindFeasibleOrDisjointEdge has a smaller graph.
C9_Original_TerminatesOnEveryGraph ==
  /\ pc # "walk_forever"
  /\ (pc = "vw_fg" /\ hist.outerPrev >= 0) =>
        (hist.present /\ size(fgResult) < hist.outerPrev)
  /\ (pc = "ff_loop" /\ hist.innerPrev >= 0) => size(Gc) < hist.innerPrev

\* ------------------------------------------------- simulation (claims)
SimDone == pc = "done" /\ answer # "none"
Accepts(w) == Outcome(simL \o w) = "Accept"

\* C1: in existence mode (m > 0) the answer Yes is only given when some
\* certificate of length m makes the direct run of the machine on the tape
\* followed by that certificate halt in Accept.
C1_YesHasAcceptingCertificate ==
  (SimDone /\ simM > 0 /\ answer = "Yes") => \E w \in Certificates : Accepts(w)

C1_Witness ==
  /\ SimDone /\ simM > 0 /\ answer = "Yes"
  /\ \E w \in Certificates : ~Accepts(w)
  /\ GV # {}

\* C2 as claimed: in existence mode with a halting machine, whenever some
\* certificate makes the direct run accept, the call returns Yes.
C2_Original_AcceptingCertificateGivesYes ==
  (pc = "done" /\ simM > 0 /\ \E w \in Certificates : Accepts(w))
    => answer = "Yes"

\* C3: in verifier mode (m = 0) the call does not fail, answers Yes exactly
\* when the direct run on the tape halts in Accept and No when it halts in
\* Reject, and the vertex its walk reaches after n edges is the
\* configuration of the direct run after n steps: the same cell and state,
\* reading the symbol the run last wrote there.
C3_VerifierModeIsDirectRun ==
  /\ simM = 0 => pc \notin {"crashed", "assert_failed", "walk_forever"}
  /\ (SimDone /\ simM = 0) =>
        /\ answer = "Yes" <=> Outcome(simL) = "Accept"
        /\ Outcome(simL) = "Reject" => answer = "No"
  /\ (pc = "x_walk" /\ simM = 0) =>
        LET c == DirectRun(simL, walkLength + 1)
        IN /\ state(xe[2]) = c.state
           /\ index(xe[2]) = c.index
           /\ symbol(xe[2]) = c.tape[c.index]

C3_Witness ==
  /\ SimDone /\ simM = 0 /\ answer = "Yes"
  /\ \E v \in GV : symbol(v) # simL[index(v) + 1]


\* ------------------------------------------------ stored graph (claims)
RECURSIVE SumCounts(_, _)
SumCounts(items, k) ==
  IF k > Len(items) THEN 0 ELSE items[k].edgeCount + SumCounts(items, k + 1)

NoRepeat(s) == \A j, k \in 1..Len(s) : s[j] = s[k] => j = k

\* C11: addEdge of an edge that is there and removeEdge of an edge that is
\* not there leave size(), every slice count and every list of neighbours
\* as they were, and no list of neighbours ever holds a vertex twice.
C11_RepeatedAddAndAbsentRemoveChangeNothing ==
  /\ (dcgLast # NoOp /\ dcgLast.kind = "add" /\ dcgLast.had)
        => View(dcg[dcgLast.g]) = dcgLast.before
  /\ (dcgLast # NoOp /\ dcgLast.kind = "remove" /\ ~dcgLast.had)
        => View(dcg[dcgLast.g]) = dcgLast.before
  /\ \A g \in DOMAIN dcg, i \in DSlices, v \in DVertices, k \in 1..4 :
        NoRepeat(ListsAt(dcg[g], i, v)[k])

C11_Witness ==
  /\ dcgLast # NoOp
  /\ dcgLast.kind = "remove" /\ ~dcgLast.had
  /\ dcgLast.pkind = "add" /\ dcgLast.phad /\ dcgLast.pg = dcgLast.g
  /\ dcg[dcgLast.g].edgeCount > 0

\* C12: addEdge of an edge that is not there followed by removeEdge of the
\* same edge brings back the edge set, size(), the slice counts and all
\* lists of neighbours, for edges to the right and to the left.
C12_RemoveUndoesAdd ==
  (/\ dcgLast # NoOp
   /\ dcgLast.kind = "remove" /\ dcgLast.pkind = "add"
   /\ dcgLast.pg = dcgLast.g /\ dcgLast.pe = dcgLast.e /\ ~dcgLast.phad)
     => View(dcg[dcgLast.g]) = dcgLast.pbefore

C12_Witness ==
  /\ dcgLast # NoOp
  /\ dcgLast.kind = "remove" /\ dcgLast.pkind = "add"
  /\ dcgLast.pg = dcgLast.g /\ dcgLast.pe = dcgLast.e /\ ~dcgLast.phad
  /\ dirE(dcgLast.e) = -1
  /\ \E f \in dcgLast.pbefore.edges : f[2] = dcgLast.e[2] /\ dirE(f) = -1

\* C13: size() is the sum of the edge counts of the slices, and the edge
\* count of a slice is the number of edges, all different, that its
\* getAllEdges() lists.
C13_SizeIsSumOfSliceCounts ==
  \A g \in DOMAIN dcg :
    /\ dcg[g].edgeCount = SumCounts(dcg[g].E.items, 1)
    /\ \A k \in 1..Len(dcg[g].E.items) :
         LET sl == dcg[g].E.items[k]
         IN /\ sl.edgeCount = Len(EdgeSlice_getAllEdges(sl))
            /\ NoRepeat(EdgeSlice_getAllEdges(sl))

C13_Witness ==
  /\ dcgLast # NoOp
  /\ dcgLast.kind = "remove" /\ dcgLast.had
  /\ dcg[dcgLast.g].edgeCount = 2
  /\ Cardinality({i \in DSlices : CountAt(dcg[dcgLast.g], i) > 0}) = 2
  /\ dirE(dcgLast.e) = -1

\* C18: the graph getCopyedGraph returns has the edges and the size of the
\* graph it was made from, making it changes nothing in that graph, and
\* afterwards addEdge/removeEdge on either graph leaves the edge set, the
\* size and the lists of the other as they were.
C18_CopyIsIndependent ==
  /\ (dcgLast # NoOp /\ dcgLast.kind = "copy") =>
        /\ StoredEdges(dcg[dcgLast.g]) = StoredEdges(dcg[3 - dcgLast.g])
        /\ dcg[dcgLast.g].edgeCount = dcg[3 - dcgLast.g].edgeCount
        /\ View(dcg[3 - dcgLast.g]) = dcgLast.other
  /\ (dcgLast # NoOp /\ dcgLast.kind \in {"add", "remove"} /\ DOMAIN dcg = 1..2) =>
        View(dcg[3 - dcgLast.g]) = dcgLast.other

C18_Witness ==
  /\ dcgLast # NoOp /\ DOMAIN dcg = 1..2
  /\ dcgLast.kind = "remove" /\ dcgLast.had /\ dcgLast.pkind = "copy"
  /\ dcgLast.pg = dcgLast.g
  /\ dcg[1].V = dcg[2].V
  /\ dcgLast.e \in StoredEdges(dcg[3 - dcgLast.g])
  /\ dcg[3 - dcgLast.g].edgeCount = 2
  /\ dcg[dcgLast.g].edgeCount = 1

\* v is a member of V[index][tier][state][symbol] of the registry reg
Registered(reg, v) == isDefined(reg, index(v)) /\ v \in Item(reg, index(v))

EndsRegistered(g) ==
  \A e \in g.E : \A k \in 1..2 :
     e[k] \in CaseVertices(g, index(e[k]), tier(e[k]), state(e[k]), symbol(e[k]))

\* C14: both ends of every stored edge are registered in V of the graph,
\* in the graphs built by addEdge/removeEdge, in the graphs getCopyedGraph
\* returns and in the graphs ComputeFeasibleGraph works on and returns.
C14_EdgeEndsAreRegistered ==
  /\ \A g \in DOMAIN dcg : \A e \in StoredEdges(dcg[g]) :
        Registered(dcgV[dcg[g].V], e[1]) /\ Registered(dcgV[dcg[g].V], e[2])
  /\ \A g \in {G0, G, H, fgResult, Gw, Gc} : EndsRegistered(g)

C14_Witness ==
  /\ dcgLast # NoOp /\ DOMAIN dcg = 1..2
  /\ dcgLast.kind = "remove" /\ dcgLast.had /\ dcgLast.pkind = "copy"
  /\ dcg[1].V = dcg[2].V
  /\ \E e \in StoredEdges(dcg[dcgLast.g]) : tier(e[1]) > 0 \/ tier(e[2]) > 0

C16_Original_TargetsKeptUnlessEmpty ==
  FGDone =>
    \A e \in Ef \cap GetStepPendentEdgesWithReachableGraph(G, C, V0, Ef)[1].E :
       size(fgResult) = 0 \/ hasEdge(fgResult, e)

\* The candidate graph H as ComputeFeasibleGraph has it before the cascade.
EnteredH == GetStepPendentEdgesWithReachableGraph(G, C, V0, Ef)[1]

\* C17: the removal in the cascade after which every edge of Ef has been
\* removed from H ends the call at once, with a graph of size 0, whatever
\* edges H still has.
C17_AllTargetsRemovedReturnsEmpty ==
  [][(/\ pc = "fg_loop" /\ H'.E # H.E
      /\ \A e \in Ef : hasEdge(EnteredH, e) /\ ~hasEdge(H', e))
        => (pc' = fgRet /\ size(fgResult') = 0)]_vars

C17_Witness ==
  /\ FGDone /\ fgLast.kind = "remove"
  /\ Cardinality(Ef) = 2
  /\ \A e \in Ef : hasEdge(EnteredH, e) /\ ~hasEdge(H, e)
  /\ size(fgResult) = 0 /\ size(H) > 0

\* C19: a candidate for which VerifyExistenceOfWalk returned None leaves H
\* with the edges and the size it had before the candidate was added, and
\* while the candidate is verified H holds these edges and the candidate.
C19_DiscardedCandidateLeavesGraph ==
  /\ simCand.result = "discarded" =>
        /\ G0.E = simCand.before.E
        /\ size(G0) = size(simCand.before)
  /\ simCand.result = "verifying" =>
        /\ G0.E = simCand.before.E \cup {simCand.ef}
        /\ size(G0) = size(simCand.before) + 1

C19_Witness ==
  /\ simCand.result = "discarded" /\ pc = "sim_extend"
  /\ size(G0) > 1 /\ ~hasEdge(G0, simCand.ef)

\* The edges of H that are there to stay: all but a candidate that is
\* being verified.
CommittedAccepting ==
  {e \in G0.E : /\ state(e[2]) = "Accept"
                /\ ~(simCand.result = "verifying" /\ e = simCand.ef)}

\* C20: IsAcceptedOnFootmarks returns True exactly when an edge into an
\* Accept vertex has been committed, it returns as soon as there is one,
\* and it returns False only after a round that extended no edge or when
\* no boundary edge was collected.
C20_TerminalConditions ==
  [][/\ pc' # "assert_failed" =>
          /\ accepted' <=> CommittedAccepting' # {}
          /\ Cardinality(CommittedAccepting') <= 1
     /\ accepted' => pc' \in {"sim_ret", "done"}
     /\ (pc # "sim_ret" /\ pc' = "sim_ret" /\ ~accepted') =>
          /\ pc = "sim_extend" /\ simQ = {}
          /\ simEv = {} \/ CollectRestrictedBoundaryEdges(G0, simEv) = {}]_vars

C20_Witness ==
  /\ pc = "sim_ret" /\ ~accepted
  /\ simCand.result = "confirmed" /\ size(G0) > 1
  /\ \E e \in G0.E : state(e[2]) = "Reject"

\* C21: a run of SimulateVerifierForAllCertificates on a non-empty tape
\* with a machine that halts on every tape considered raises nothing and
\* ends with the answer Yes or No.
C21_Original_ReturnsYesOrNoWithoutException ==
  /\ pc \notin {"crashed", "assert_failed", "walk_forever"}
  /\ pc = "done" => answer \in {"Yes", "No"}

\* C22: the simulation with original's sweep-based ComputeFeasibleGraph in
\* place of main's ends, for every input, with the answer Yes or No that
\* main's package gives for that input.
C22_Original_HybridYieldsAnswerOfMain ==
  /\ fgModule = "original" => pc \notin {"crashed", "assert_failed", "walk_forever"}
  /\ (pc = "done" /\ fgModule = "original") =>
        /\ answer \in {"Yes", "No"}
        /\ answer = mainAnswer

\* DynamicComputationGraph.outgoingEdgeOf / incomingEdgeOf on the stored
\* form: the right-hand lists of the slice of v, then the left-hand lists
\* of the slice before it.
DCG_outgoingEdgeOf(o, v) ==
  LET L == ListsAt(o, index(v), v)[4] \o ListsAt(o, index(v) - 1, v)[2]
  IN [k \in 1..Len(L) |-> <<v, L[k]>>]

DCG_incomingEdgeOf(o, v) ==
  LET L == ListsAt(o, index(v), v)[3] \o ListsAt(o, index(v) - 1, v)[1]
  IN [k \in 1..Len(L) |-> <<L[k], v>>]

Occurrences(s, x) == Cardinality({k \in 1..Len(s) : s[k] = x})

\* how often the edge ed is recorded in the outgoing lists of its source
\* and in the incoming lists of its target, in slice i
OutgoingRecords(o, i, ed) ==
  Occurrences(ListsAt(o, i, ed[1])[2], ed[2]) + Occurrences(ListsAt(o, i, ed[1])[4], ed[2])
IncomingRecords(o, i, ed) ==
  Occurrences(ListsAt(o, i, ed[2])[1], ed[1]) + Occurrences(ListsAt(o, i, ed[2])[3], ed[1])

\* C23: after any sequence of addEdge and removeEdge, hasEdge(e), e being
\* listed by outgoingEdgeOf of its source and e being listed by
\* incomingEdgeOf of its target are the same thing, and an edge that is
\* there is recorded once among the outgoing lists of its source and once
\* among the incoming lists of its target, both in the slice of e.
C23_DirectionalListsAgree ==
  \A g \in DOMAIN dcg, ed \in DEdges :
    LET o == dcg[g]
        has == DCG_hasEdge(o, ed)[2]
    IN /\ has <=> InList(ed, DCG_outgoingEdgeOf(o, ed[1]))
       /\ has <=> InList(ed, DCG_incomingEdgeOf(o, ed[2]))
       /\ \A i \in DSlices :
            /\ OutgoingRecords(o, i, ed) = IF has /\ i = indexE(ed) THEN 1 ELSE 0
            /\ IncomingRecords(o, i, ed) = IF has /\ i = indexE(ed) THEN 1 ELSE 0

C23_Witness ==
  /\ dcgLast # NoOp /\ dcgLast.kind = "remove" /\ dcgLast.had
  /\ dirE(dcgLast.e) = -1
  /\ \E ed \in StoredEdges(dcg[dcgLast.g]) :
        /\ dirE(ed) = -1 /\ ed[1] = dcgLast.e[1]
        /\ InList(ed, DCG_outgoingEdgeOf(dcg[dcgLast.g], ed[1]))
  /\ \E ed \in StoredEdges(dcg[dcgLast.g]) : dirE(ed) = 1

\* C24: addEdge of a pair of vertices whose cells are not neighbours (the
\* same cell, or two or more cells apart) ends in an assertion failure and
\* leaves size(), the slice counts, the edge set and the lists as they were.
C24_FarEdgeIsRefused ==
  (dcgLast # NoOp /\ dcgLast.kind = "add" /\ dcgLast.e \notin DEdges) =>
     /\ pc = "assert_failed"
     /\ View(dcg[dcgLast.g]) = dcgLast.before

C24_Witness ==
  /\ dcgLast # NoOp /\ dcgLast.kind = "add"
  /\ index(dcgLast.e[2]) - index(dcgLast.e[1]) = 2
  /\ pc = "assert_failed"
  /\ dcg[dcgLast.g].edgeCount = 2
  /\ \E ed \in StoredEdges(dcg[dcgLast.g]) : ed[1] = dcgLast.e[1]

\* C26: when the oracle returns a state outside the declared state set the
\* run aborts: no vertex is made for such a state, and no run in which the
\* oracle has returned one for a configuration of the graph ends with an
\* answer.
C26_Original_UndeclaredStateIsFatal ==
  /\ \A e \in G0.E : state(e[1]) \in States /\ state(e[2]) \in States
  /\ pc = "done" => \A e \in G0.E : next_state(e[1]) \in States

\* C25: TransitionCase.vertex(P) with a predecessor of another cell, of a
\* tier other than the one below the case, or with any predecessor for a
\* case of the floor, fails an assertion; no vertex is returned or added.
C25_Original_MismatchIsAssertion ==
  (/\ caseCall.kind # "none" /\ caseCall.P # NoCase
   /\ \/ caseCall.P[1] # caseCall.T[1]
      \/ caseCall.P[2] # caseCall.T[2] - 1
      \/ caseCall.T[2] = 0)
    => /\ caseCall.kind = "AssertionError" /\ pc = "assert_failed"
       /\ GV = caseCall.before

\* C27: among the vertices registered in one graph as ends of edges, w is
\* an index-succedent of v exactly when v is an index-precedent of w, and
\* a vertex of tier 0 has no index-precedent; stated of the graph of the
\* run when it ends and of every graph ComputeFeasibleGraph has returned
\* (a registry only grows, so these hold every vertex there has been).
InverseIn(g) ==
  /\ \A v \in g.V : ISuccedent(g, v) = {w \in g.V : v \in IPrecedent(g, w)}
  /\ \A v \in g.V : tier(v) = 0 => IPrecedent(g, v) = {}

C27_SuccedentIsInverseOfPrecedent ==
  /\ pc = "done" => InverseIn(G0)
  /\ pc \in {"vw_fg", "prune_fg"} => InverseIn(fgResult)

C27_Witness ==
  /\ pc = "done"
  /\ \E v \in G0.V, w \in G0.V :
        /\ tier(v) > 0 /\ w \in ISuccedent(G0, v) /\ v \in IPrecedent(G0, w)
        /\ output(v) # symbol(v)
  /\ \E v \in G0.V, w \in G0.V :
        /\ index(v) = index(w) /\ tier(w) = tier(v) + 1
        /\ w \notin ISuccedent(G0, v)

\* The edges of GetIPrecedents(e) and GetISuccedents(e) in the slice of e.
PrecedentsInSlice(g, e) == {f \in GetIPrecedents(g, e) : indexE(f) = indexE(e)}
SuccedentsInSlice(g, e) == {f \in GetISuccedents(g, e) : indexE(f) = indexE(e)}

\* C28 as stated: for every edge of a graph a support count is zero
\* exactly when the support relation of that name is empty.
C28_Original_ZeroCountIffNoSupport ==
  \A e \in H.E :
    /\ CountIPrecedents(H, e) = 0 <=> GetIPrecedents(H, e) = {}
    /\ CountISuccedents(H, e) = 0 <=> GetISuccedents(H, e) = {}

\* C28, amended: the counts take every edge of the slice of e that leaves
\* an index-precedent of the head of e (enters an index-succedent of its
\* tail), whatever its other end, so they are at least the number of edges
\* of GetIPrecedents(e) (GetISuccedents(e)) in the slice of e, and a zero
\* count means that no such edge lies in that slice.
C28_CountsBoundSupportInSlice ==
  \A e \in H.E :
    /\ CountIPrecedents(H, e) >= Cardinality(PrecedentsInSlice(H, e))
    /\ CountISuccedents(H, e) >= Cardinality(SuccedentsInSlice(H, e))
    /\ CountIPrecedents(H, e) = 0 => PrecedentsInSlice(H, e) = {}
    /\ CountISuccedents(H, e) = 0 => SuccedentsInSlice(H, e) = {}

C28_Witness ==
  /\ pc = "fg_loop"
  /\ \E e \in H.E : CountISuccedents(H, e) > 0 /\ GetISuccedents(H, e) = {}
  /\ \E e \in H.E : CountIPrecedents(H, e) > 0 /\ PrecedentsInSlice(H, e) # {}
  /\ \E e \in H.E : tier(e[2]) > 0 /\ CountIPrecedents(H, e) = 0

\* C29 as stated: every edge of ComputeFeasibleGraph(G, V0, Ef) belongs to
\* ComputeCoverEdges(G, Ef), which contains every edge of Ef.
C29_Original_FeasibleInsideCover ==
  (pc = "done" /\ fgLast.kind = "return") =>
    /\ fgResult.E \subseteq ComputeCoverEdges(G, Ef)
    /\ Ef \subseteq ComputeCoverEdges(G, Ef)

\* C29, amended: ComputeCoverEdges(G, Ef) contains every edge of Ef and
\* only edges of G, and an edge of ComputeFeasibleGraph(G, V0, Ef) that is
\* not a cover edge has a non-zero succedent count in G; the cover set is
\* the set of edges excused from that test, not a superset of the result.
C29_CoverHoldsTargetsAndExcusesSuccedentTest ==
  (pc = "done" /\ fgLast.kind = "return") =>
    LET cov == ComputeCoverEdges(G, Ef)
    IN /\ Ef \subseteq cov
       /\ cov \subseteq G.E
       /\ \A e \in fgResult.E \ cov : CountISuccedents(G, e) > 0

C29_Witness ==
  /\ pc = "done" /\ fgLast.kind = "return"
  /\ fgResult.E \ ComputeCoverEdges(G, Ef) # {}
  /\ ComputeCoverEdges(G, Ef) \ Ef # {}
  /\ \E e \in G.E \ fgResult.E :
       e \notin ComputeCoverEdges(G, Ef) /\ CountISuccedents(G, e) = 0

\* One worklist iteration of ComputeFeasibleGraph that removes e from H,
\* and the edges it has put on the worklist by the time e is removed.
FGRemoves(e) ==
  /\ pc = "fg_loop" /\ T # <<>>
  /\ e \in Top(T) /\ hasEdge(H, e)
  /\ H' = removeEdge(H, e)
FGPushed(e) ==
  LET kept == IF Top(T) = {e} THEN Len(T) - 1 ELSE Len(T)
  IN UNION {T'[k] : k \in (kept + 1)..Len(T')}

SameItem(old, new) ==
  /\ new.index = old.index /\ new.edgeCount = old.edgeCount
  /\ Len(new.edges) >= Len(old.edges)
  /\ SubSeq(new.edges, 1, Len(old.edges)) = old.edges
CellTop(arr) == arr.base + Len(arr.items)

\* C31: after any sequence of reads of a CellArray at any indices the item
\* at position i - base carries index i; a read of an undefined index
\* extends the range to that index with every item in between, leaves a
\* defined range as it is, and no item that was there is replaced or
\* dropped.
C31_CellArrayKeepsItems ==
  /\ \A k \in 1..Len(cells.items) : cells.items[k].index = cells.base + k - 1
  /\ cellRead.n > 0 =>
       LET b == cellRead.before
           i == cellRead.i
       IN /\ isDefined(cells, i) /\ Item(cells, i).index = i
          /\ cells.base = (IF i < b.base THEN i ELSE b.base)
          /\ CellTop(cells) = (IF i >= CellTop(b) THEN i + 1 ELSE CellTop(b))
          /\ \A j \in CellIndices :
               isDefined(b, j) => isDefined(cells, j) /\ SameItem(Item(b, j), Item(cells, j))
          /\ \A j \in CellIndices :
               (isDefined(cells, j) /\ ~isDefined(b, j)) =>
                 Item(cells, j).edgeCount = 0
                 /\ Len(Item(cells, j).edges) = (IF j = i /\ cellRead.v # <<>> THEN 1 ELSE 0)

\* A read below the range has put items in front of a slice that had been
\* given edge lists, and skipped over at least one index.
C31_Witness ==
  /\ cellRead.n >= 2
  /\ cellRead.i < cellRead.before.base - 1
  /\ cells.base = cellRead.i
  /\ \E j \in CellIndices :
       /\ isDefined(cellRead.before, j)
       /\ Item(cellRead.before, j).edges # <<>>
       /\ Item(cells, j) = Item(cellRead.before, j)

\* C32: a case above the floor gives, for a predecessor of its cell and of
\* the tier below, the vertex whose key ends in the predecessor's state and
\* symbol, the same by key for every such predecessor, and gets a new
\* member only for a pair it has not seen; no case loses a member or holds
\* two members with one key, and a floor case holds exactly one vertex.
C32_VertexIdentityByKey ==
  LET held == caseCall.held
      Tc == caseCall.T
  IN /\ \A x, y \in held : x[1] = y[1] => x = y
     /\ caseCall.heldBefore \subseteq held
     /\ \A F \in Cases :
          F[2] = 0 =>
            /\ Cardinality(CaseMembers(held, F)) <= 1
            /\ (caseCall.n > 0 /\ F \in {Tc, caseCall.P}) =>
                 CaseMembers(held, F) # {}
            /\ CaseMembers(caseCall.heldBefore, F) # {} =>
                 CaseMembers(held, F) = CaseMembers(caseCall.heldBefore, F)
     /\ (caseCall.kind = "vertex" /\ Tc[2] > 0) =>
          LET key == <<Tc[1], Tc[2], Tc[3], Tc[4], caseCall.P[3], caseCall.P[4]>>
              seenPair == \E x \in caseCall.heldBefore : x[1] = key
          IN /\ caseCall.got[1] = key
             /\ \E x \in CaseMembers(held, Tc) : vertex_eq(x, caseCall.got)
             /\ seenPair => CaseMembers(held, Tc) = CaseMembers(caseCall.heldBefore, Tc)
             /\ ~seenPair =>
                  CaseMembers(held, Tc) = CaseMembers(caseCall.heldBefore, Tc) \cup {caseCall.got}

\* A case above the floor was asked again for a pair it had seen, after a
\* floor case had been read.
C32_Witness ==
  /\ caseCall.n = MaxCalls /\ caseCall.kind = "vertex" /\ caseCall.T[2] > 0
  /\ \E x \in caseCall.heldBefore : vertex_eq(x, caseCall.got)
  /\ \E F \in Cases : F[2] = 0 /\ CaseMembers(caseCall.held, F) # {}
  /\ \E x \in caseCall.held : x[1][2] > 0

\* C33: in a simulation run the only edge a step takes out of H is the
\* candidate under verification, when VerifyExistenceOfWalk has returned;
\* between two candidates H holds every edge it held before the last
\* candidate was put in, and once the extension of a confirmed candidate
\* has finished the candidate is in H.
C33_GraphOfRecordGrows ==
  [][/\ G0.E \ G0'.E # {} =>
          pc = "sim_vw" /\ G0.E \ G0'.E = {simCand.ef} /\ simCand.ef \notin simCand.before.E
     /\ pc' = "sim_extend" => simCand'.before.E \subseteq G0'.E
     /\ (pc = "sim_extend" /\ pc' = "sim_extend") => G0.E \subseteq G0'.E
     /\ (simCand'.result = "confirmed" /\ pc' \in {"sim_extend", "sim_ret", "done"}) =>
          simCand'.ef \in G0'.E]_vars

\* A second candidate has been confirmed and extended after the first one
\* was discarded or confirmed, and H has grown past the candidate.
C33_Witness ==
  /\ pc = "sim_extend" /\ simCand.result = "confirmed"
  /\ simCand.before.E # {}
  /\ simCand.ef \in G0.E
  /\ Cardinality(G0.E) > Cardinality(simCand.before.E) + 1

C35_Original_NonEmptyResultHoldsTarget ==
  (FGDone /\ fgResult.E # {}) =>
    /\ fgResult.E \cap Ef # {}
    /\ Cardinality(Ef) = 1 => Ef \subseteq fgResult.E

\* C36: a non-empty graph returned by ComputeFeasibleGraph(G, V0, Ef) has no
\* dangling edge: every edge outside Ef has a next edge in the result and
\* every edge whose source is outside V0 has a previous edge in the result.
C36_NoDanglingEdges ==
  (FGDone /\ fgResult.E # {}) =>
    \A e \in fgResult.E :
      /\ e \notin Ef => getNextEdges(fgResult, e) # {}
      /\ e[1] \notin V0 => getPrevEdges(fgResult, e) # {}

\* The call has removed edges, and its result keeps an edge outside Ef and
\* an edge that does not start in V0.
C36_Witness ==
  /\ FGDone /\ fgResult.E # {} /\ fgResult.E # G0.E
  /\ \E e \in fgResult.E : e \notin Ef /\ getNextEdges(fgResult, e) # {}
  /\ \E e \in fgResult.E : e[1] \notin V0 /\ getPrevEdges(fgResult, e) # {}

\* C37: a query of a graph (hasEdge, incomingEdgeOf, outgoingEdgeOf,
\* isFoldingNode, isMergingEdge, isSplittingEdge, IPrecedent, ISuccedent,
\* CountIPrecedents, CountISuccedents, GetIPrecedents, GetISuccedents) leaves
\* size(), the edge count of every slice and the set of stored edges as
\* they were, also when it creates slices, edge lists or registry cells.
C37_QueriesKeepEdges ==
  dcgLast.kind \in Queries =>
    LET now == View(dcg[dcgLast.g])
    IN /\ now.size = dcgLast.before.size
       /\ now.counts = dcgLast.before.counts
       /\ now.edges = dcgLast.before.edges

\* The graph held one edge when the query was made, and the query has
\* created a slice below every slice an addEdge can reach.
C37_Witness ==
  /\ dcgLast.kind \in Queries /\ dcgLast.had
  /\ dcgLast.before.size = 1
  /\ isDefined(dcg[dcgLast.g].E, -2)
  /\ Item(dcg[dcgLast.g].E, -2).edges # <<>>

\* The symbols a floor vertex of the cell i can carry in this run.
LiteralAt(i) ==
  IF i < 0 \/ i >= Len(simL) + simM THEN {Blank}
  ELSE IF i < Len(simL) THEN {simL[i + 1]}
  ELSE CertSymbols

\* The edges the run has proposed or committed: H, the candidates waiting
\* in Q, the edge being walked and the restart points on the stack.
Proposed ==
  G0.E \cup simQ \cup ({xe} \ {NoEdge})
       \cup UNION {{x.e : x \in xT[k]} : k \in DOMAIN xT}

FollowsOracle(e) ==
  LET u == e[1]
      v == e[2]
  IN /\ index(v) = next_index(u)
     /\ state(v) = next_state(u)
     /\ IF tier(v) = 0 THEN symbol(v) \in LiteralAt(index(v))
        ELSE /\ symbol(v) = delta(last_state(v), last_symbol(v))[2]
             /\ \E f \in G0.E : \E w \in {f[1], f[2]} :
                  transitionCase(w) = IPrecedentCase(v)

\* C38: every edge (u, v) the orchestrator proposes as a candidate or
\* commits to H follows the transition of u: v is in the cell u moves to,
\* in the state u goes to; a floor target carries the tape symbol of its
\* cell (the blank outside, a certificate symbol on a certificate cell), a
\* target above the floor the symbol written by the vertex of its cell one
\* tier below whose transition case is its predecessor.
C38_EdgesFollowOracle == \A e \in Proposed : FollowsOracle(e)

\* A candidate with a target above the floor waits in Q while H holds an
\* edge into a certificate cell.
C38_Witness ==
  /\ pc = "sim_extend"
  /\ \E e \in simQ : tier(e[2]) > 0 /\ FollowsOracle(e)
  /\ \E e \in G0.E : index(e[2]) >= Len(simL) /\ index(e[2]) < Len(simL) + simM

\* C39: whenever ExtendByVerifiableEdges is between candidates, and when the
\* run ends without acceptance, every edge (u, v) of H has a target in state
\* Accept or Reject or an outgoing edge of v in H: no committed walk stops
\* at a configuration that does not halt.
C39_WalksCommittedToHalting ==
  (pc = "sim_extend" \/ (pc = "done" /\ answer = "No")) =>
    \A e \in G0.E : state(e[2]) \in Halting \/ outgoingEdgeOf(G0, e[2]) # {}

\* The run has ended with No after a candidate was discarded, and H holds a
\* rejecting walk of more than two edges.
C39_Witness ==
  /\ pc = "done" /\ answer = "No"
  /\ simCand.result = "discarded"
  /\ Cardinality(G0.E) > 2
  /\ \E e \in G0.E : state(e[2]) = "Reject"
  /\ \E e \in G0.E : state(e[2]) \notin Halting /\ outgoingEdgeOf(G0, e[2]) # {}

\* ep of ExtendEdgeDirectlyWithWalk: the last edge over the slice the walk
\* crosses next, once the edge being walked is on the surface.
SurfacePredOfWalk ==
  LET v == xe[2]
      S1 == SurfaceSet(xS, indexE(xe), xe)
      sl == IF index(v) < next_index(v) THEN index(v) ELSE next_index(v)
  IN IF sl \in DOMAIN S1 THEN S1[sl] ELSE NoEdge

\* The two assertions of GetNextEdgesAbovePreds(u, Ep).
AbovePredsAssertionsHold(u, Ep) ==
  /\ \A e \in Ep \ {NoEdge} : index(e[2]) = index(u) /\ index(e[1]) = next_index(u)
  /\ \A f \in GetNextEdgesAbovePreds(u, Ep) : dirE(f) \in {-1, 1}

\* C40: every edge (x, w) handed to GetNextEdgesAbovePreds(u, Ep) as a
\* surface predecessor ends in the cell of u and starts in the cell u moves
\* to, and every edge produced joins neighbouring cells, so the assertions
\* of GetNextEdgesAbovePreds do not fail: for the walk being extended and
\* for the boundary candidates collected when a round of candidates is over.
C40_SurfaceAssertionsHold ==
  /\ (pc = "x_walk" /\ state(xe[2]) \notin Halting) =>
        AbovePredsAssertionsHold(xe[2], {SurfacePredOfWalk})
  /\ (pc = "sim_extend" /\ simQ = {}) =>
        \A p \in BoundaryPairs(simEv) :
           AbovePredsAssertionsHold(p[2][2], BoundaryPreds(G0, p))

\* A round of candidates is over with a pair whose predecessors come from
\* weak-ceiling adjacency, one of them an edge of H, after walks were
\* extended above surface predecessors.
C40_Witness ==
  /\ pc = "sim_extend" /\ simQ = {}
  /\ \E p \in BoundaryPairs(simEv) :
       p[1] = NoEdge /\ BoundaryPreds(G0, p) \ {NoEdge} # {}
  /\ \E e \in G0.E : tier(e[2]) > 0
====
